---- MODULE Spec2Model ----
(***************************************************************************)
(* A state-machine model of the pyseq2 control core:                       *)
(*   - fluidics/valve.py : Valve (10-port selector) and Valves (the pair   *)
(*     forming 18 reagent ports, with the port_safety scope);              *)
(*   - imager.py         : Imager.wait_ready, take, autofocus, initialize; *)
(*   - camera/dcam.py    : Cameras.capture with its driver scopes;         *)
(*   - laser.py          : Laser.set_power;                                *)
(*   - fpga/tiltstage.py : TiltStage.initialize.                           *)
(* Every await of the source is one step of the model; asyncio.gather is   *)
(* the interleaving of its members.                                        *)
(***************************************************************************)
EXTENDS Integers, Sequences, FiniteSets, TLC

(***************************************************************************)
(* Bounds of the model.                                                    *)
(***************************************************************************)
\* Valve moves abandoned by a failed gather that may be in flight at once.
MaxOrphans == 1

(***************************************************************************)
(* Tasks and valves.                                                       *)
(***************************************************************************)
Tasks == {"a", "b"}
\* The callers of the sequential valve specification.
ValveCallers == {"a"}
ValveIds == {0, 1}
\* valve.py:15  ValvePorts = Literal[1..10]
ValvePorts == 1..10
\* Arguments tried on Valves.move and port_safety: the ends of the low range
\* (1, 8), of the high range (10, 18), the ports of the seed scenarios
\* (3, 5, 14), the safe port 9 and the invalid neighbours 0 and 19.
PortInputs == {0, 1, 3, 5, 8, 9, 10, 14, 18, 19}
\* Positions the valves start at and Valve.move is called with directly.
StartPorts == {1, 3, 5, 9, 10}

VARIABLES
    hw,      \* hw[v]: the physical position of valve v (what CP reports)
    job,     \* job[j]: one invocation of Valve.move
    plock,   \* Valves.lock: its holder, or "free"
    pc,      \* pc[t]: where task t is in its valve operation
    op,      \* op[t]: the operation task t called
    ctx,     \* ctx[t]: which Valves.move of the operation is running
    mp,      \* mp[t]: the argument p of the running Valves.move
    exc,     \* exc[t]: the exception in flight while port_safety unwinds
    rd,      \* rd[t][v]: readback of valve v taken by Valves.pos (0: not yet)
    res,     \* res[t]: how the operation ended
    mres,    \* mres[t]: how the latest Valves.move of the operation ended
    start0,  \* position of valve 0 when the operation began (0: no operation)
    gos,     \* gos[v]: GO targets sent to valve v since the operation began
    ncmd     \* ncmd[v]: commands of any kind sent to valve v since then

valveVars == <<hw, job, plock, pc, op, ctx, mp, exc, rd, res, mres, start0, gos, ncmd>>

VARIABLES
    pending, \* pending[c]: sends on channel c that have not been answered yet
    ilock,   \* Imager.lock: its holder, or "free"
    ipc,     \* ipc[t]: where task t is in its imager operation
    iop,     \* iop[t]: the imager operation task t called, with its arguments
    nb,      \* nb[t]: n_bundles inside take (after the flush bundle is added)
    cam,     \* cam[t]: the camera set take chose (0, 1, or 2 for both)
    cpc,     \* cpc[t]: where the capture started by take is
    sh,      \* the shutter: "closed" or "open"
    ymode,   \* the mode of the Y stage
    tdi,     \* the line count the TDI was last prepared for
    ev,      \* the steps of the imaging sequence taken so far, in order
    ires     \* ires[t]: what the imager operation returned or raised

imagerVars == <<pending, ilock, ipc, iop, nb, cam, cpc, sh, ymode, tdi, ev, ires>>

VARIABLES
    kpc,     \* where the executor is in Cameras.capture
    kn,      \* n_bundles of the running capture
    al,      \* al[c]: driver frames of camera c: "none", "alloc", "freed"
    cp,      \* cp[c]: driver capture of camera c: "none", "armed", "idle"
    lk,      \* lk[c]: camera c has a bundle locked (dcam_lockdata)
    fr,      \* fr[c]: frame count camera c reports (dcam_gettransferinfo)
    rdc,     \* the count read from camera 0 while the pair's count is formed
    curr,    \* curr of the polling loop
    taken,   \* taken of the polling loop
    ki,      \* the bundle index get_bundles is copying
    kend,    \* the end of the range of bundles being copied
    kph,     \* which copy is running: "loop" (line 265) or "drain" (line 268)
    thunk,   \* number of calls of start_capture
    kexc,    \* an exception is unwinding the scopes of Cameras.capture
    cpd,     \* cpd[c]: the bundle indices copied from camera c, in order
    kres     \* how Cameras.capture ended: "none", "ok", "raised"

camVars == <<kpc, kn, al, cp, lk, fr, rdc, curr, taken, ki, kend, kph, thunk, kexc, cpd, kres>>

VARIABLES
    fk,      \* fk[t]: the argmax index of the intensities of t's autofocus
    ftarget  \* ftarget[t]: the target autofocus computed (-1: none)

focusVars == <<fk, ftarget>>

VARIABLES
    lpc,     \* where the worker of Laser.set_power is
    ltgt,    \* the argument power of set_power
    lset,    \* the power the laser was last told to go to
    lpw,     \* the power the laser emits (what POWER? reports)
    lrd,     \* the latest readback the worker took (-1: none)
    lres     \* how set_power ended: "none", "ok", "ValueError"

laserVars == <<lpc, ltgt, lset, lpw, lrd, lres>>

VARIABLES
    tpc,     \* index of the last step TiltStage.initialize has done
    tsent,   \* the commands sent to the FPGA so far, in order
    tack     \* how many of them the FPGA has answered

tiltVars == <<tpc, tsent, tack>>

VARIABLES
    props,   \* props[c]: the property map of camera c (name -> number)
    vpc,     \* where the call on the merged view is
    vcall,   \* the call on the merged view: its kind and its arguments
    vtodo,   \* the (name, value) pairs the call has still to write
    vres     \* how the call ended, and the value a read returned

propVars == <<props, vpc, vcall, vtodo, vres>>

deviceVars == <<camVars, focusVars, laserVars, tiltVars, propVars>>

vars == <<valveVars, imagerVars, deviceVars>>

(***************************************************************************)
(* The valve protocol: CP answers "Position is  = <p>".                    *)
(***************************************************************************)
\* The decimal digits of the position in the reply to CP.
Reply(p) == IF p >= 10 THEN <<p \div 10, p % 10>> ELSE <<p>>

RECURSIVE DigitsToInt(_)
DigitsToInt(ds) ==
    IF ds = <<>> THEN 0
    ELSE 10 * DigitsToInt(SubSeq(ds, 1, Len(ds) - 1)) + ds[Len(ds)]

\* A parser that keeps one digit only: (\d) for (\d+).
GET_POS_OneDigit(reply) == reply[1]

\* valve.py:23  CmdParse("CP", ok_re(r"Position is  = (\d+)", int))
GET_POS(reply) == DigitsToInt(reply)

\* valve.py:47-51  Valve.pos: send CP, parse the reply.
ValvePos(v) == GET_POS(Reply(hw[v]))

(***************************************************************************)
(* Valve.move jobs.  A job is owned by the task that awaits it, <<t, v>>,  *)
(* or is an orphan <<"orphan", i>>: a member of a gather whose sibling     *)
(* raised, still running with nobody awaiting it.                          *)
(***************************************************************************)
OrphanIds == {"orphan"} \X (1..MaxOrphans)
JobIds == (Tasks \X ValveIds) \cup OrphanIds

\* tk is the job's place in the FIFO of its valve's big lock (asyncio.Lock
\* wakes its waiters in arrival order); the job with tk = 1 holds the lock
\* or is the next to take it.
NoJob == [pc |-> "none", v |-> 0, tgt |-> 1, rb1 |-> 0, went |-> FALSE, tk |-> 0]

\* A job between `async with self.com.big_lock` and its exit holds the lock.
Holding == {"r1", "go", "r2"}
Running == {"wait", "r1", "go", "r2"}

OnValve(jb, v) == {j \in JobIds : jb[j].pc \in Running /\ jb[j].v = v}

\* Valve.move entered without waiting for the big lock.
NewJob_NoLock(v, p) ==
    [pc |-> "r1",
     v |-> v, tgt |-> p, rb1 |-> 0, went |-> FALSE,
     tk |-> Cardinality(OnValve(job, v)) + 1]

\* valve.py:53-55  entering Valve.move: an asyncio.Lock that is free and has
\* no waiter is taken without suspending, otherwise the job queues on it.
NewJob(v, p) ==
    [pc |-> IF OnValve(job, v) = {} THEN "r1" ELSE "wait",
     v |-> v, tgt |-> p, rb1 |-> 0, went |-> FALSE,
     tk |-> Cardinality(OnValve(job, v)) + 1]

\* valve.py:55  a queued job gets the big lock when its turn comes.
JobAcquire(j) ==
    /\ job[j].pc = "wait"
    /\ job[j].tk = 1
    /\ job' = [job EXCEPT ![j].pc = "r1"]
    /\ UNCHANGED <<hw, plock, pc, op, ctx, mp, exc, rd, res, mres, start0, gos, ncmd>>
    /\ UNCHANGED <<imagerVars, deviceVars>>

\* rb1 and went record, for the awaiter of a job, the first readback and
\* whether GO was sent; nobody awaits an orphan.
Noted(j, r) == IF j \in OrphanIds THEN 0 ELSE r

\* The early return of Valve.move compared the wrong way round.
AtTarget_Inverted(readback, p) == readback # p

\* valve.py:60  if await self.pos == p
AtTarget(readback, p) == readback = p

\* valve.py:55  leaving `async with self.com.big_lock`: job j ends with
\* `outcome` and every job queued behind it on the valve moves up.  An
\* orphan that ends is gone; an awaited job keeps its outcome for its
\* awaiter.
Release(j, rec, outcome) ==
    [k \in JobIds |->
        IF k = j
        THEN (IF j \in OrphanIds THEN NoJob ELSE [rec EXCEPT !.pc = outcome])
        ELSE IF job[k].pc \in Running /\ job[k].v = job[j].v
             THEN [job[k] EXCEPT !.tk = @ - 1]
             ELSE job[k]]

\* valve.py:60-61  read the position; return without GO when already there.
JobRead1(j) ==
    /\ job[j].pc = "r1"
    /\ LET v == job[j].v
           r == ValvePos(v)
       IN /\ ncmd' = [ncmd EXCEPT ![v] = @ + 1]
          /\ job' = IF AtTarget(r, job[j].tgt)
                    THEN Release(j, [job[j] EXCEPT !.rb1 = r], "ok")
                    ELSE [job EXCEPT ![j].pc = "go", ![j].rb1 = Noted(j, r)]
    /\ UNCHANGED <<hw, plock, pc, op, ctx, mp, exc, rd, res, mres, start0, gos>>
    /\ UNCHANGED <<imagerVars, deviceVars>>

\* valve.py:62-63  send GO<p>.  The rotor either reaches p or stays where
\* it is (the failure the confirming readback exists for).
JobGo(j) ==
    /\ job[j].pc = "go"
    /\ LET v == job[j].v
       IN /\ gos' = [gos EXCEPT ![v] = Append(@, job[j].tgt)]
          /\ ncmd' = [ncmd EXCEPT ![v] = @ + 1]
          /\ \E moved \in BOOLEAN :
                hw' = [hw EXCEPT ![v] = IF moved THEN job[j].tgt ELSE @]
    /\ job' = [job EXCEPT ![j].pc = "r2", ![j].went = (j \notin OrphanIds)]
    /\ UNCHANGED <<plock, pc, op, ctx, mp, exc, rd, res, mres, start0>>
    /\ UNCHANGED <<imagerVars, deviceVars>>

\* The confirming readback accepted whatever it reads.
Confirmed_Unchecked(readback, p) == TRUE

\* valve.py:64  if await self.pos != p: raise
Confirmed(readback, p) == readback = p

\* valve.py:64-65  re-read the position; a mismatch raises.
JobRead2(j) ==
    /\ job[j].pc = "r2"
    /\ LET v == job[j].v
           r == ValvePos(v)
       IN /\ ncmd' = [ncmd EXCEPT ![v] = @ + 1]
          /\ job' = Release(j, job[j], IF Confirmed(r, job[j].tgt) THEN "ok" ELSE "err")
    /\ UNCHANGED <<hw, plock, pc, op, ctx, mp, exc, rd, res, mres, start0, gos>>
    /\ UNCHANGED <<imagerVars, deviceVars>>

(***************************************************************************)
(* Calls made by a task.                                                   *)
(***************************************************************************)
NoOp == [kind |-> "none", v |-> 0, p |-> 0, raises |-> FALSE]

FreeOrphans == {o \in OrphanIds : job[o].pc = "none"}

\* A new operation begins; the command logs (empty between operations)
\* record what is sent from here on.
BeginOp(t, o) ==
    /\ pc[t] = "idle"
    /\ op' = [op EXCEPT ![t] = o]
    /\ start0' = hw[0]
    /\ UNCHANGED <<gos, ncmd>>

\* valve.py:53  a task calls Valve.move(p) on valve v itself.
CallValveMove(t, v, p) ==
    /\ BeginOp(t, [kind |-> "vmove", v |-> v, p |-> p, raises |-> FALSE])
    /\ job' = [job EXCEPT ![<<t, v>>] = NewJob(v, p)]
    /\ pc' = [pc EXCEPT ![t] = "vm"]
    /\ UNCHANGED <<hw, plock, ctx, mp, exc, rd, res, mres>>
    /\ UNCHANGED <<imagerVars, deviceVars>>

\* valve.py:53-65  Valve.move returns, or raises "did not move".
ValveMoveEnds(t) ==
    /\ pc[t] = "vm"
    /\ job[<<t, op[t].v>>].pc \in {"ok", "err"}
    /\ res' = [res EXCEPT ![t] =
                  IF job[<<t, op[t].v>>].pc = "ok" THEN "ok" ELSE "PositionError"]
    /\ pc' = [pc EXCEPT ![t] = "done"]
    /\ UNCHANGED <<hw, job, plock, op, ctx, mp, exc, rd, mres, start0, gos, ncmd>>
    /\ UNCHANGED <<imagerVars, deviceVars>>

\* valve.py:98  a task calls Valves.move(p).  A gather of this call may leave
\* one orphan behind, so a slot must be free for it.
CallMove(t, p) ==
    /\ FreeOrphans # {}
    /\ BeginOp(t, [kind |-> "move", v |-> 0, p |-> p, raises |-> FALSE])
    /\ ctx' = [ctx EXCEPT ![t] = "direct"]
    /\ mp' = [mp EXCEPT ![t] = p]
    /\ pc' = [pc EXCEPT ![t] = "m_lock"]
    /\ UNCHANGED <<hw, job, plock, exc, rd, res, mres>>
    /\ UNCHANGED <<imagerVars, deviceVars>>

\* valve.py:108-111  a task enters `async with port_safety(p)`; `raises`
\* says whether the body of the with-statement will raise.
CallPortSafety(t, p, raises) ==
    /\ FreeOrphans # {}
    /\ BeginOp(t, [kind |-> "safety", v |-> 0, p |-> p, raises |-> raises])
    /\ ctx' = [ctx EXCEPT ![t] = "enter"]
    /\ mp' = [mp EXCEPT ![t] = p]
    /\ pc' = [pc EXCEPT ![t] = "m_lock"]
    /\ UNCHANGED <<hw, job, plock, exc, rd, res, mres>>
    /\ UNCHANGED <<imagerVars, deviceVars>>

(***************************************************************************)
(* Valves.move and port_safety.                                            *)
(***************************************************************************)
\* valve.py:100  if not 1 <= p <= 18 and p != 9: raise ValueError
InvalidPort(p) == ~(1 <= p /\ p <= 18) /\ p # 9

\* valve.py:93-96  Valves.pos: p2 + 9 if p1 == 10, else p1.
ValvesPos(p1, p2) == IF p1 = 10 THEN p2 + 9 ELSE p1

\* What follows the end, with outcome r, of the Valves.move task t is in:
\* valve.py:109-114.  A move called directly ends the operation.  The move
\* on entry to port_safety is followed by the body, or, when it raised, by
\* the finally clause's move(9).  The move(9) of the finally clause ends the
\* scope: its own exception replaces the one in flight.
AfterMove(t, r) ==
    CASE ctx[t] = "direct" ->
            [pc |-> "done", ctx |-> "direct", mp |-> mp[t], exc |-> exc[t], res |-> r]
      [] ctx[t] = "enter" /\ r = "ok" ->
            [pc |-> "ps_body", ctx |-> "enter", mp |-> mp[t], exc |-> exc[t], res |-> res[t]]
      [] ctx[t] = "enter" /\ r # "ok" ->
            [pc |-> "m_lock", ctx |-> "exit", mp |-> 9, exc |-> r, res |-> res[t]]
      [] ctx[t] = "exit" ->
            [pc |-> "done", ctx |-> "exit", mp |-> mp[t], exc |-> exc[t],
             res |-> IF r # "ok" THEN r ELSE exc[t]]

MoveEnds(t, r) ==
    /\ pc' = [pc EXCEPT ![t] = AfterMove(t, r).pc]
    /\ ctx' = [ctx EXCEPT ![t] = AfterMove(t, r).ctx]
    /\ mp' = [mp EXCEPT ![t] = AfterMove(t, r).mp]
    /\ exc' = [exc EXCEPT ![t] = AfterMove(t, r).exc]
    /\ res' = [res EXCEPT ![t] = AfterMove(t, r).res]
    /\ mres' = [mres EXCEPT ![t] = r]

\* Every move taken as one of the second valve.
HighPort_All(p) == TRUE

\* valve.py:102  if p > 9: the port is on the second valve.
HighPort(p) == p > 9

\* valve.py:99-105  take the pair lock, validate p, start the valve moves:
\* both valves for p > 9 (asyncio.gather), valve 0 alone otherwise.
MoveEnter(t) ==
    /\ pc[t] = "m_lock"
    /\ plock = "free"
    /\ IF InvalidPort(mp[t])
       THEN /\ MoveEnds(t, "ValueError")
            /\ UNCHANGED <<plock, job>>
       ELSE /\ plock' = t
            /\ job' = IF HighPort(mp[t])
                      THEN [job EXCEPT ![<<t, 0>>] = NewJob(0, 10),
                                       ![<<t, 1>>] = NewJob(1, mp[t] - 9)]
                      ELSE [job EXCEPT ![<<t, 0>>] = NewJob(0, mp[t])]
            /\ pc' = [pc EXCEPT ![t] = "m_moving"]
            /\ UNCHANGED <<ctx, mp, exc, res, mres>>
    /\ UNCHANGED <<hw, op, rd, start0, gos, ncmd>>
    /\ UNCHANGED <<imagerVars, deviceVars>>

Mine(t) == {<<t, v>> : v \in ValveIds}

\* valve.py:103-105  every valve move awaited has returned: go on to the
\* assert of line 106.
MoveMoved(t) ==
    /\ pc[t] = "m_moving"
    /\ \A j \in Mine(t) : job[j].pc \in {"none", "ok"}
    /\ job' = [j \in JobIds |-> IF j \in Mine(t) THEN NoJob ELSE job[j]]
    /\ pc' = [pc EXCEPT ![t] = "m_pos"]
    /\ rd' = [rd EXCEPT ![t] = [v \in ValveIds |-> 0]]
    /\ UNCHANGED <<hw, plock, op, ctx, mp, exc, res, mres, start0, gos, ncmd>>
    /\ UNCHANGED <<imagerVars, deviceVars>>

\* valve.py:103-105 with 99  a valve move raised: the exception leaves
\* Valves.move at once and releases the pair lock.  asyncio.gather does not
\* cancel the other member, which runs on as an orphan.
MoveRaises(t) ==
    /\ pc[t] = "m_moving"
    /\ \E j \in Mine(t) : job[j].pc = "err"
    /\ LET left == {j \in Mine(t) : job[j].pc \in Running}
       IN IF left = {}
          THEN job' = [j \in JobIds |-> IF j \in Mine(t) THEN NoJob ELSE job[j]]
          ELSE \E o \in FreeOrphans :
                  job' = [j \in JobIds |->
                             IF j = o
                             THEN [job[CHOOSE l \in left : TRUE]
                                      EXCEPT !.rb1 = 0, !.went = FALSE]
                             ELSE IF j \in Mine(t) THEN NoJob ELSE job[j]]
    /\ plock' = "free"
    /\ MoveEnds(t, "PositionError")
    /\ UNCHANGED <<hw, op, rd, start0, gos, ncmd>>
    /\ UNCHANGED <<imagerVars, deviceVars>>

\* valve.py:93  Valves.pos gathers the two readbacks, in either order.
MovePosRead(t, v) ==
    /\ pc[t] = "m_pos"
    /\ rd[t][v] = 0
    /\ rd' = [rd EXCEPT ![t][v] = ValvePos(v)]
    /\ ncmd' = [ncmd EXCEPT ![v] = @ + 1]
    /\ UNCHANGED <<hw, job, plock, pc, op, ctx, mp, exc, res, mres, start0, gos>>
    /\ UNCHANGED <<imagerVars, deviceVars>>

\* valve.py:106  assert await self.pos == p, then leave the pair lock.
MoveAssert(t) ==
    /\ pc[t] = "m_pos"
    /\ \A v \in ValveIds : rd[t][v] # 0
    /\ plock' = "free"
    /\ MoveEnds(t, IF ValvesPos(rd[t][0], rd[t][1]) = mp[t]
                   THEN "ok" ELSE "AssertionError")
    /\ UNCHANGED <<hw, job, op, rd, start0, gos, ncmd>>
    /\ UNCHANGED <<imagerVars, deviceVars>>

\* The scope without its finally clause: move(9) follows the body only when
\* the body returns; a raising body leaves the scope at once.
PortSafetyBody_NoFinally(t) ==
    /\ pc[t] = "ps_body"
    /\ IF op[t].raises
       THEN /\ res' = [res EXCEPT ![t] = "BodyError"]
            /\ pc' = [pc EXCEPT ![t] = "done"]
            /\ UNCHANGED <<exc, ctx, mp>>
       ELSE /\ exc' = [exc EXCEPT ![t] = "ok"]
            /\ ctx' = [ctx EXCEPT ![t] = "exit"]
            /\ mp' = [mp EXCEPT ![t] = 9]
            /\ pc' = [pc EXCEPT ![t] = "m_lock"]
            /\ UNCHANGED res
    /\ UNCHANGED <<hw, job, plock, op, rd, mres, start0, gos, ncmd>>
    /\ UNCHANGED <<imagerVars, deviceVars>>

\* valve.py:112-114  the body of the with-statement runs, normally or
\* raising; either way the finally clause calls move(9).
PortSafetyBody(t) ==
    /\ pc[t] = "ps_body"
    /\ exc' = [exc EXCEPT ![t] = IF op[t].raises THEN "BodyError" ELSE "ok"]
    /\ ctx' = [ctx EXCEPT ![t] = "exit"]
    /\ mp' = [mp EXCEPT ![t] = 9]
    /\ pc' = [pc EXCEPT ![t] = "m_lock"]
    /\ UNCHANGED <<hw, job, plock, op, rd, res, mres, start0, gos, ncmd>>
    /\ UNCHANGED <<imagerVars, deviceVars>>

\* The caller has the outcome; the task is free for its next call and the
\* logs of the operation are dropped.
Return(t) ==
    /\ pc[t] = "done"
    /\ pc' = [pc EXCEPT ![t] = "idle"]
    /\ op' = [op EXCEPT ![t] = NoOp]
    /\ res' = [res EXCEPT ![t] = "none"]
    /\ mres' = [mres EXCEPT ![t] = "none"]
    /\ exc' = [exc EXCEPT ![t] = "ok"]
    /\ ctx' = [ctx EXCEPT ![t] = "direct"]
    /\ mp' = [mp EXCEPT ![t] = 1]
    /\ rd' = [rd EXCEPT ![t] = [v \in ValveIds |-> 0]]
    /\ job' = [j \in JobIds |-> IF j \in Mine(t) THEN NoJob ELSE job[j]]
    /\ start0' = 0
    /\ gos' = [v \in ValveIds |-> <<>>]
    /\ ncmd' = [v \in ValveIds |-> 0]
    /\ UNCHANGED <<hw, plock>>
    /\ UNCHANGED <<imagerVars, deviceVars>>

(***************************************************************************)
(* The imager: imager.py.                                                  *)
(***************************************************************************)
\* Sends that may be unanswered on one channel at once.
MaxPending == 2

\* imager.py:100-102  the channels wait_ready waits on: x.com, y.com,
\* fpga.com.
Chans == {"x", "y", "fpga"}
WaitCallers == {"a"}
TakeCallers == {"a"}

\* imager.py:33  CHANNEL = {0: 1, 1: 3, 2: 2, 3: 0}
CHANNEL == (0 :> 1) @@ (1 :> 3) @@ (2 :> 2) @@ (3 :> 0)

\* dcam.py:196  Cameras.BUNDLE_HEIGHT
BUNDLE_HEIGHT == 128
\* dcam.py:269  each camera's 4096 columns are split into two images of 2048
HALF_WIDTH == 2048

\* Values of n_bundles tried on take: both sides of both ends of the range.
NBundleInputs == {-1, 0, 1, 2, 1499, 1500, 1501}
ChannelSets == SUBSET {0, 1, 2, 3}

NoIOp == [kind |-> "none", n |-> 0, dark |-> FALSE, channels |-> {}, back |-> FALSE]
NoResult == [kind |-> "none", nch |-> 0, rows |-> 0, cols |-> 0]
Raised(e) == [kind |-> e, nch |-> 0, rows |-> 0, cols |-> 0]

InitImager ==
    /\ pending = [c \in Chans |-> 0]
    /\ ilock = "free"
    /\ ipc = [t \in Tasks |-> "idle"]
    /\ iop = [t \in Tasks |-> NoIOp]
    /\ nb = [t \in Tasks |-> 0]
    /\ cam = [t \in Tasks |-> 2]
    /\ cpc = [t \in Tasks |-> "none"]
    /\ sh = "closed"
    /\ ymode = "DEFAULT"
    /\ tdi = 0
    /\ ev = <<>>
    /\ ires = [t \in Tasks |-> NoResult]

(***************************************************************************)
(* The serial channels, as far as wait_ready sees them: COM.send queues a  *)
(* request until its reply arrives, COM.wait completes when nothing is     *)
(* queued.                                                                 *)
(***************************************************************************)
\* Another task sends a command on channel c.
Submit(c) ==
    /\ pending[c] < MaxPending
    /\ pending' = [pending EXCEPT ![c] = @ + 1]
    /\ UNCHANGED <<ilock, ipc, iop, nb, cam, cpc, sh, ymode, tdi, ev, ires>>
    /\ UNCHANGED <<valveVars, deviceVars>>

\* The reply to the oldest request on channel c arrives.
Complete(c) ==
    /\ pending[c] > 0
    /\ pending' = [pending EXCEPT ![c] = @ - 1]
    /\ UNCHANGED <<ilock, ipc, iop, nb, cam, cpc, sh, ymode, tdi, ev, ires>>
    /\ UNCHANGED <<valveVars, deviceVars>>

\* COM.wait() on channel c is complete.
ComIdle(c) == pending[c] = 0

(***************************************************************************)
(* Imager.wait_ready: imager.py:95-103.                                    *)
(***************************************************************************)
\* A task calls wait_ready itself.
CallWaitReady(t) ==
    /\ ipc[t] = "idle"
    /\ iop' = [iop EXCEPT ![t] = [NoIOp EXCEPT !.kind = "wait_ready"]]
    /\ ipc' = [ipc EXCEPT ![t] = "w_x"]
    /\ UNCHANGED <<pending, ilock, nb, cam, cpc, sh, ymode, tdi, ev, ires>>
    /\ UNCHANGED <<valveVars, deviceVars>>

\* imager.py:100-102  the three awaits, one after the other; after the
\* last, wait_ready returns: into take (line 134), into autofocus (line
\* 177) or to its caller.
WaitNext(t) ==
    CASE ipc[t] = "w_x" -> "w_y"
      [] ipc[t] = "w_y" -> "w_f"
      [] ipc[t] = "w_f" -> IF iop[t].kind = "take" THEN "snap"
                           ELSE IF iop[t].kind = "autofocus" THEN "af_arm"
                           ELSE "done"

WaitsOn(t) ==
    CASE ipc[t] = "w_x" -> "x"
      [] ipc[t] = "w_y" -> "y"
      [] ipc[t] = "w_f" -> "fpga"

WaitStep(t) ==
    /\ ipc[t] \in {"w_x", "w_y", "w_f"}
    /\ ComIdle(WaitsOn(t))
    /\ ipc' = [ipc EXCEPT ![t] = WaitNext(t)]
    /\ ires' = [ires EXCEPT ![t] =
                   IF WaitNext(t) = "done" THEN [NoResult EXCEPT !.kind = "ok"] ELSE @]
    /\ UNCHANGED <<pending, ilock, iop, nb, cam, cpc, sh, ymode, tdi, ev>>
    /\ UNCHANGED <<valveVars, deviceVars>>

(***************************************************************************)
(* Imager.take: imager.py:105-158.                                         *)
(***************************************************************************)
CallTake(t, n, dark, channels, back) ==
    /\ ipc[t] = "idle"
    /\ iop' = [iop EXCEPT ![t] = [kind |-> "take", n |-> n, dark |-> dark,
                                  channels |-> channels, back |-> back]]
    /\ ipc' = [ipc EXCEPT ![t] = "t_lock"]
    /\ UNCHANGED <<pending, ilock, nb, cam, cpc, sh, ymode, tdi, ev, ires>>
    /\ UNCHANGED <<valveVars, deviceVars>>

\* The bounds check with both ends let in.
BadBundles_Inclusive(n) == ~(0 <= n /\ n <= 1500)

\* imager.py:117  if not 0 < n_bundles < 1500: raise ValueError
BadBundles(n) == ~(0 < n /\ n < 1500)

\* imager.py:122  c = [CHANNEL[x] for x in sorted(channels)]
Phys(channels) == {CHANNEL[x] : x \in channels}

\* imager.py:123-130  the cameras serving the channels: 2 is both, -1 none.
CamFor(c) ==
    IF (0 \in c \/ 1 \in c) /\ (2 \in c \/ 3 \in c) THEN 2
    ELSE IF 0 \in c \/ 1 \in c THEN 0
    ELSE IF 2 \in c \/ 3 \in c THEN 1
    ELSE -1

\* imager.py:116-134  take the instrument lock, validate, choose the cameras,
\* add the flush bundle and go into wait_ready.  An exception leaves the lock.
\* The record of hardware steps starts afresh with each critical section.
TakeEnter(t) ==
    /\ ipc[t] = "t_lock"
    /\ iop[t].kind = "take"
    /\ ilock = "free"
    /\ IF BadBundles(iop[t].n) \/ CamFor(Phys(iop[t].channels)) = -1
       THEN /\ ires' = [ires EXCEPT ![t] = Raised("ValueError")]
            /\ ipc' = [ipc EXCEPT ![t] = "done"]
            /\ UNCHANGED <<ilock, nb, cam, ev>>
       ELSE /\ ilock' = t
            /\ cam' = [cam EXCEPT ![t] = CamFor(Phys(iop[t].channels))]
            /\ nb' = [nb EXCEPT ![t] = iop[t].n + 1]
            /\ ipc' = [ipc EXCEPT ![t] = "w_x"]
            /\ ev' = <<>>
            /\ UNCHANGED ires
    /\ UNCHANGED <<pending, iop, cpc, sh, ymode, tdi>>
    /\ UNCHANGED <<valveVars, deviceVars>>

\* The line count of the bundles asked for, without the flush bundle.
NPxY_NoFlush(n) == (n - 1) * BUNDLE_HEIGHT

\* imager.py:138  n_px_y = n_bundles * self.cams.BUNDLE_HEIGHT, n_bundles
\* being the incremented count of line 133.
NPxY(n) == n * BUNDLE_HEIGHT

\* imager.py:136-143  the state snapshot, the end position of the scan and
\* its assert (whether the scan fits above -7e6 depends on where Y stands),
\* then the gather of line 143 starts its two members, TDI prep first.
TakeSnapshot(t) ==
    /\ ipc[t] = "snap"
    /\ \E fits \in BOOLEAN :
          IF fits
          THEN /\ ev' = ev \o <<"tdi_prep", "y_mode">>
               /\ tdi' = NPxY(nb[t])
               /\ ipc' = [ipc EXCEPT ![t] = "gather"]
               /\ UNCHANGED <<ilock, ires>>
          ELSE /\ ires' = [ires EXCEPT ![t] = Raised("AssertionError")]
               /\ ilock' = "free"
               /\ ipc' = [ipc EXCEPT ![t] = "done"]
               /\ UNCHANGED <<ev, tdi>>
    /\ UNCHANGED <<pending, iop, nb, cam, cpc, sh, ymode>>
    /\ UNCHANGED <<valveVars, deviceVars>>

Happened(e) == \E i \in 1..Len(ev) : ev[i] = e

\* imager.py:143  tdi.prepare_for_imaging(n_px_y, pos) completes.
PrepDone(t) ==
    /\ ipc[t] = "gather"
    /\ ~Happened("tdi_prep_done")
    /\ ev' = Append(ev, "tdi_prep_done")
    /\ UNCHANGED <<pending, ilock, ipc, iop, nb, cam, cpc, sh, ymode, tdi, ires>>
    /\ UNCHANGED <<valveVars, deviceVars>>

\* imager.py:143  y.set_mode("IMAGING") completes.
ModeDone(t) ==
    /\ ipc[t] = "gather"
    /\ ~Happened("y_mode_done")
    /\ ev' = Append(ev, "y_mode_done")
    /\ ymode' = "IMAGING"
    /\ UNCHANGED <<pending, ilock, ipc, iop, nb, cam, cpc, sh, tdi, ires>>
    /\ UNCHANGED <<valveVars, deviceVars>>

\* imager.py:143  await asyncio.gather(...): both members have completed.
GatherDone == Happened("tdi_prep_done") /\ Happened("y_mode_done")

\* imager.py:144  cap = self.cams.acapture(n_bundles, fut_capture=y.move(..))
TakeCapture(t) ==
    /\ ipc[t] = "gather"
    /\ GatherDone
    /\ cpc' = [cpc EXCEPT ![t] = "new"]
    /\ ipc' = [ipc EXCEPT ![t] = "cap"]
    /\ UNCHANGED <<pending, ilock, iop, nb, cam, sh, ymode, tdi, ev, ires>>
    /\ UNCHANGED <<valveVars, deviceVars>>

\* The capture runs from the call of acapture on when acapture hands the
\* work to the camera executor at once, and from `await cap` on when it is a
\* coroutine; either way it may run once line 144 is passed.
CaptureMayRun(t) == ipc[t] = "cap"

\* dcam.py:257  with self.alloc(n_bundles): frames allocated on both cameras.
CapAlloc(t) ==
    /\ CaptureMayRun(t)
    /\ cpc[t] = "new"
    /\ cpc' = [cpc EXCEPT ![t] = "alloc"]
    /\ ev' = Append(ev, "alloc")
    /\ UNCHANGED <<pending, ilock, ipc, iop, nb, cam, sh, ymode, tdi, ires>>
    /\ UNCHANGED <<valveVars, deviceVars>>

\* dcam.py:260  with self[0].capture(), self[1].capture(): capture armed.
CapArm(t) ==
    /\ cpc[t] = "alloc"
    /\ cpc' = [cpc EXCEPT ![t] = "armed"]
    /\ ev' = Append(ev, "arm")
    /\ UNCHANGED <<pending, ilock, ipc, iop, nb, cam, sh, ymode, tdi, ires>>
    /\ UNCHANGED <<valveVars, deviceVars>>

\* The start thunk called once frames are allocated, before capture is armed.
ReadyToStart_Unarmed(t) == cpc[t] = "alloc"

\* dcam.py:260-261  start_capture() is called inside the capture scope.
ReadyToStart(t) == cpc[t] = "armed"

\* dcam.py:261  start_capture(): the Y stage begins its scan
\* (imager.py:144, y.move(end_y_pos, slowly=True)).
CapStart(t) ==
    /\ ReadyToStart(t)
    /\ cpc' = [cpc EXCEPT ![t] = "moving"]
    /\ ev' = Append(ev, "motion")
    /\ UNCHANGED <<pending, ilock, ipc, iop, nb, cam, sh, ymode, tdi, ires>>
    /\ UNCHANGED <<valveVars, deviceVars>>

\* dcam.py:262-266  the polling loop runs until both cameras report
\* n_bundles frames.
CapCollect(t) ==
    /\ cpc[t] = "moving"
    /\ cpc' = [cpc EXCEPT ![t] = "collected"]
    /\ UNCHANGED <<pending, ilock, ipc, iop, nb, cam, sh, ymode, tdi, ev, ires>>
    /\ UNCHANGED <<valveVars, deviceVars>>

\* dcam.py:260-269  leave the capture scope (dcam_idle), copy what is left,
\* leave the allocation (dcam_freeframe) and return the images.
CapRelease(t) ==
    /\ cpc[t] = "collected"
    /\ cpc' = [cpc EXCEPT ![t] = "done"]
    /\ UNCHANGED <<pending, ilock, ipc, iop, nb, cam, sh, ymode, tdi, ev, ires>>
    /\ UNCHANGED <<valveVars, deviceVars>>

\* imager.py:146-149  unless dark, take enters open_shutter() before it
\* awaits the capture.
ShutterOpen(t) ==
    /\ ipc[t] = "cap"
    /\ ~iop[t].dark
    /\ ~Happened("shutter_open")
    /\ sh' = "open"
    /\ ev' = Append(ev, "shutter_open")
    /\ UNCHANGED <<pending, ilock, ipc, iop, nb, cam, cpc, ymode, tdi, ires>>
    /\ UNCHANGED <<valveVars, deviceVars>>

\* imager.py:147, 150  `await cap` returns the images.
TakeCaptured(t) ==
    /\ ipc[t] = "cap"
    /\ cpc[t] = "done"
    /\ iop[t].dark \/ Happened("shutter_open")
    /\ ipc' = [ipc EXCEPT ![t] = IF iop[t].dark THEN "back" ELSE "close"]
    /\ UNCHANGED <<pending, ilock, iop, nb, cam, cpc, sh, ymode, tdi, ev, ires>>
    /\ UNCHANGED <<valveVars, deviceVars>>

\* dcam.py:257-269  the capture raises after it was armed (a driver call,
\* the start thunk, the polling or the copy fails); its scopes are left, the
\* cameras idle and the frames freed.
CapFail(t) ==
    /\ cpc[t] \in {"armed", "moving"}
    /\ cpc' = [cpc EXCEPT ![t] = "failed"]
    /\ UNCHANGED <<pending, ilock, ipc, iop, nb, cam, sh, ymode, tdi, ev, ires>>
    /\ UNCHANGED <<valveVars, deviceVars>>

\* imager.py:147, 150  `await cap` raises what the capture raised.
TakeCaptureRaised(t) ==
    /\ ipc[t] = "cap"
    /\ cpc[t] = "failed"
    /\ iop[t].dark \/ Happened("shutter_open")
    /\ ipc' = [ipc EXCEPT ![t] = IF iop[t].dark THEN "raise" ELSE "xclose"]
    /\ UNCHANGED <<pending, ilock, iop, nb, cam, cpc, sh, ymode, tdi, ev, ires>>
    /\ UNCHANGED <<valveVars, deviceVars>>

\* imager.py:149-150  leaving open_shutter() closes the shutter, on the way
\* to line 154 or while the exception of the capture unwinds.
ShutterClose(t) ==
    /\ ipc[t] \in {"close", "xclose"}
    /\ sh' = "closed"
    /\ ev' = Append(ev, "shutter_close")
    /\ ipc' = [ipc EXCEPT ![t] = IF ipc[t] = "close" THEN "back" ELSE "raise"]
    /\ UNCHANGED <<pending, ilock, iop, nb, cam, cpc, ymode, tdi, ires>>
    /\ UNCHANGED <<valveVars, deviceVars>>

\* imager.py:157, 190  acapture returns the two images of the one camera
\* asked for, or the four of both.
NImages(c) == IF c = 2 THEN 4 ELSE 2

\* dcam.py:95-96  a camera's buffer has n_bundles * BUNDLE_HEIGHT rows.
CaptureRows(n) == n * BUNDLE_HEIGHT

\* imager.py:157-158  the slice [:-128] of the rows.
FLUSH_ROWS == 128

\* imager.py:155-158  what take returns: for camera 1 the images picked by
\* the channels alone, otherwise every image together with the snapshot.
TakeResult(t) ==
    IF cam[t] = 1
    THEN [kind |-> "bare", nch |-> Cardinality(Phys(iop[t].channels)),
          rows |-> CaptureRows(nb[t]) - FLUSH_ROWS, cols |-> HALF_WIDTH]
    ELSE [kind |-> "pair", nch |-> NImages(cam[t]),
          rows |-> CaptureRows(nb[t]) - FLUSH_ROWS, cols |-> HALF_WIDTH]

\* imager.py:154-158  move Y back, post-process, return; the lock is left.
TakeMoveBack(t) ==
    /\ ipc[t] = "back"
    /\ ev' = Append(ev, "y_back")
    /\ ires' = [ires EXCEPT ![t] = TakeResult(t)]
    /\ ilock' = "free"
    /\ cpc' = [cpc EXCEPT ![t] = "none"]
    /\ ipc' = [ipc EXCEPT ![t] = "done"]
    /\ UNCHANGED <<pending, iop, nb, cam, sh, ymode, tdi>>
    /\ UNCHANGED <<valveVars, deviceVars>>

\* imager.py:116, 146-154  the exception leaves `async with self.lock`:
\* the lock is released and take raises.  Nothing between line 150 and the
\* end of the lock's scope catches it, so line 154 is not run.
TakeRaise(t) ==
    /\ ipc[t] = "raise"
    /\ ires' = [ires EXCEPT ![t] = Raised("CaptureError")]
    /\ ilock' = "free"
    /\ cpc' = [cpc EXCEPT ![t] = "none"]
    /\ ipc' = [ipc EXCEPT ![t] = "done"]
    /\ UNCHANGED <<pending, iop, nb, cam, sh, ymode, tdi, ev>>
    /\ UNCHANGED <<valveVars, deviceVars>>

(***************************************************************************)
(* Imager.autofocus (imager.py:164-196) and Imager.initialize              *)
(* (imager.py:70-80), the other two users of the instrument lock.          *)
(***************************************************************************)
\* Channels tried on autofocus: the four valid ones and an invalid one.
FocusChannels == {0, 1, 2, 3, 4}

\* imager.py:179-180  n_bundles, height = 232, 5; z_min, z_max = 2621, 60292
AF_BUNDLES == 232
Z_MIN == 2621
Z_MAX == 60292

\* The quotient n / d of two naturals with its fraction cut off, as int()
\* does with a positive float.
Trunc(n, d) == n \div d

\* The target rounded to the nearest integer instead.
AfTarget_Rounded(k) ==
    Trunc(2 * (Z_MAX * AF_BUNDLES - ((Z_MAX - Z_MIN) * k + Z_MIN * AF_BUNDLES)) + AF_BUNDLES,
          2 * AF_BUNDLES)

\* imager.py:192  int(z_max - (((z_max - z_min) / n_bundles) * argmax + z_min))
\* over the common denominator n_bundles.
AfTarget(k) ==
    Trunc(Z_MAX * AF_BUNDLES - ((Z_MAX - Z_MIN) * k + Z_MIN * AF_BUNDLES), AF_BUNDLES)

CallAutofocus(t, channel) ==
    /\ ipc[t] = "idle"
    /\ iop' = [iop EXCEPT ![t] = [kind |-> "autofocus", n |-> AF_BUNDLES, dark |-> FALSE,
                                  channels |-> {channel}, back |-> FALSE]]
    /\ ipc' = [ipc EXCEPT ![t] = "t_lock"]
    /\ UNCHANGED <<pending, ilock, nb, cam, cpc, sh, ymode, tdi, ev, ires>>
    /\ UNCHANGED <<valveVars, deviceVars>>

\* imager.py:172-181  take the lock, validate the channel (a ValueError
\* leaves the lock), go into wait_ready; cam is the camera of the channel.
AfEnter(t) ==
    /\ ipc[t] = "t_lock"
    /\ iop[t].kind = "autofocus"
    /\ ilock = "free"
    /\ LET channel == CHOOSE x \in iop[t].channels : TRUE IN
       IF channel \notin {0, 1, 2, 3}
       THEN /\ ires' = [ires EXCEPT ![t] = Raised("ValueError")]
            /\ ipc' = [ipc EXCEPT ![t] = "done"]
            /\ UNCHANGED <<ilock, nb, cam, ev>>
       ELSE /\ ilock' = t
            /\ cam' = [cam EXCEPT ![t] = IF CHANNEL[channel] \in {0, 1} THEN 0 ELSE 1]
            /\ nb' = [nb EXCEPT ![t] = AF_BUNDLES]
            /\ ipc' = [ipc EXCEPT ![t] = "w_x"]
            /\ ev' = <<>>
            /\ UNCHANGED ires
    /\ UNCHANGED <<pending, iop, cpc, sh, ymode, tdi>>
    /\ UNCHANGED <<valveVars, deviceVars>>

\* imager.py:183  async with self.z_obj.af_arm(z_min, z_max) is entered.
AfArm(t) ==
    /\ ipc[t] = "af_arm"
    /\ ipc' = [ipc EXCEPT ![t] = "af_open"]
    /\ UNCHANGED <<pending, ilock, iop, nb, cam, cpc, sh, ymode, tdi, ev, ires>>
    /\ UNCHANGED <<valveVars, deviceVars>>

\* imager.py:184  async with self.optics.open_shutter() is entered.
AfOpen(t) ==
    /\ ipc[t] = "af_open"
    /\ sh' = "open"
    /\ ipc' = [ipc EXCEPT ![t] = "af_cap"]
    /\ UNCHANGED <<pending, ilock, iop, nb, cam, cpc, ymode, tdi, ev, ires>>
    /\ UNCHANGED <<valveVars, deviceVars>>

\* imager.py:185-187  img = await self.cams.acapture(...): the sweep is
\* captured, or the capture raises.
AfCapture(t) ==
    /\ ipc[t] = "af_cap"
    /\ \E ok \in BOOLEAN :
          ipc' = [ipc EXCEPT ![t] = IF ok THEN "af_close" ELSE "af_xclose"]
    /\ UNCHANGED <<pending, ilock, iop, nb, cam, cpc, sh, ymode, tdi, ev, ires>>
    /\ UNCHANGED <<valveVars, deviceVars>>

\* imager.py:184-187  leaving open_shutter() closes the shutter.
AfClose(t) ==
    /\ ipc[t] \in {"af_close", "af_xclose"}
    /\ sh' = "closed"
    /\ ipc' = [ipc EXCEPT ![t] = IF ipc[t] = "af_close" THEN "af_disarm" ELSE "af_xdisarm"]
    /\ UNCHANGED <<pending, ilock, iop, nb, cam, cpc, ymode, tdi, ev, ires>>
    /\ UNCHANGED <<valveVars, deviceVars>>

\* imager.py:172, 183-187  leaving af_arm(); an exception of the capture
\* then leaves the lock's scope: the lock is released, autofocus raises.
AfDisarm(t) ==
    /\ ipc[t] \in {"af_disarm", "af_xdisarm"}
    /\ IF ipc[t] = "af_disarm"
       THEN /\ ipc' = [ipc EXCEPT ![t] = "af_calc"]
            /\ UNCHANGED <<ilock, ires>>
       ELSE /\ ipc' = [ipc EXCEPT ![t] = "done"]
            /\ ilock' = "free"
            /\ ires' = [ires EXCEPT ![t] = Raised("CaptureError")]
    /\ UNCHANGED <<pending, iop, nb, cam, cpc, sh, ymode, tdi, ev>>
    /\ UNCHANGED <<valveVars, deviceVars>>

\* imager.py:189-196  the intensities have their maximum at index k; the
\* target is computed and returned with them; the lock is released.
AfCompute(t, k) ==
    /\ ipc[t] = "af_calc"
    /\ fk' = [fk EXCEPT ![t] = k]
    /\ ftarget' = [ftarget EXCEPT ![t] = AfTarget(k)]
    /\ ires' = [ires EXCEPT ![t] = [kind |-> "focus", nch |-> 1, rows |-> AF_BUNDLES, cols |-> 0]]
    /\ ilock' = "free"
    /\ ipc' = [ipc EXCEPT ![t] = "done"]
    /\ UNCHANGED <<pending, iop, nb, cam, cpc, sh, ymode, tdi, ev>>
    /\ UNCHANGED <<valveVars, camVars, laserVars, tiltVars, propVars>>

\* The caller has the outcome of its autofocus.
AfReturn(t) ==
    /\ ipc[t] = "done"
    /\ iop[t].kind = "autofocus"
    /\ ipc' = [ipc EXCEPT ![t] = "idle"]
    /\ iop' = [iop EXCEPT ![t] = NoIOp]
    /\ ires' = [ires EXCEPT ![t] = NoResult]
    /\ nb' = [nb EXCEPT ![t] = 0]
    /\ cam' = [cam EXCEPT ![t] = 2]
    /\ fk' = [fk EXCEPT ![t] = 0]
    /\ ftarget' = [ftarget EXCEPT ![t] = -1]
    /\ UNCHANGED <<pending, ilock, cpc, sh, ymode, tdi, ev>>
    /\ UNCHANGED <<valveVars, camVars, laserVars, tiltVars, propVars>>

CallInitialize(t) ==
    /\ ipc[t] = "idle"
    /\ iop' = [iop EXCEPT ![t] = [NoIOp EXCEPT !.kind = "initialize"]]
    /\ ipc' = [ipc EXCEPT ![t] = "t_lock"]
    /\ UNCHANGED <<pending, ilock, nb, cam, cpc, sh, ymode, tdi, ev, ires>>
    /\ UNCHANGED <<valveVars, deviceVars>>

\* imager.py:71-73  take the lock and start the gather of the five
\* initialisations.
InitializeEnter(t) ==
    /\ ipc[t] = "t_lock"
    /\ iop[t].kind = "initialize"
    /\ ilock = "free"
    /\ ilock' = t
    /\ ipc' = [ipc EXCEPT ![t] = "i_gather"]
    /\ UNCHANGED <<pending, iop, nb, cam, cpc, sh, ymode, tdi, ev, ires>>
    /\ UNCHANGED <<valveVars, deviceVars>>

\* The lock kept when the gather raises.
InitializeDone_KeepsLock(t) ==
    /\ ipc[t] = "i_gather"
    /\ \E ok \in BOOLEAN :
          /\ ires' = [ires EXCEPT ![t] =
                         IF ok THEN [NoResult EXCEPT !.kind = "ok"] ELSE Raised("InitError")]
          /\ ilock' = (IF ok THEN "free" ELSE ilock)
    /\ ipc' = [ipc EXCEPT ![t] = "done"]
    /\ UNCHANGED <<pending, iop, nb, cam, cpc, sh, ymode, tdi, ev>>
    /\ UNCHANGED <<valveVars, deviceVars>>

\* imager.py:71-80  the gather completes or raises; either way the scope
\* of the lock is left and the lock released.
InitializeDone(t) ==
    /\ ipc[t] = "i_gather"
    /\ \E ok \in BOOLEAN :
          ires' = [ires EXCEPT ![t] =
                      IF ok THEN [NoResult EXCEPT !.kind = "ok"] ELSE Raised("InitError")]
    /\ ilock' = "free"
    /\ ipc' = [ipc EXCEPT ![t] = "done"]
    /\ UNCHANGED <<pending, iop, nb, cam, cpc, sh, ymode, tdi, ev>>
    /\ UNCHANGED <<valveVars, deviceVars>>

\* The caller has the outcome of its imager operation.  What the operation
\* left in the instrument is forgotten once nobody is operating it.
IReturn(t) ==
    /\ ipc[t] = "done"
    /\ iop[t].kind # "autofocus"
    /\ ipc' = [ipc EXCEPT ![t] = "idle"]
    /\ iop' = [iop EXCEPT ![t] = NoIOp]
    /\ ires' = [ires EXCEPT ![t] = NoResult]
    /\ nb' = [nb EXCEPT ![t] = 0]
    /\ cam' = [cam EXCEPT ![t] = 2]
    /\ IF ilock = "free"
       THEN ev' = <<>> /\ tdi' = 0 /\ ymode' = "DEFAULT"
       ELSE UNCHANGED <<ev, tdi, ymode>>
    /\ UNCHANGED <<pending, ilock, cpc, sh>>
    /\ UNCHANGED <<valveVars, deviceVars>>

(***************************************************************************)
(* Cameras.capture: dcam.py:249-269, with the scopes _Camera.alloc,        *)
(* _Camera.capture and _Camera._lock_memory (dcam.py:85-117).  It runs on  *)
(* the single executor thread; the cameras deliver frames meanwhile.  A    *)
(* driver call either succeeds or raises.                                  *)
(***************************************************************************)
\* The largest n_bundles tried on Cameras.capture.
MaxBundles == 3
CamIds == {0, 1}

InitCameras ==
    /\ kpc = "idle"
    /\ kn = 0
    /\ al = [c \in CamIds |-> "none"]
    /\ cp = [c \in CamIds |-> "none"]
    /\ lk = [c \in CamIds |-> FALSE]
    /\ fr = [c \in CamIds |-> 0]
    /\ rdc = 0
    /\ curr = 0
    /\ taken = 0
    /\ ki = 0
    /\ kend = 0
    /\ kph = "loop"
    /\ thunk = 0
    /\ kexc = FALSE
    /\ cpd = [c \in CamIds |-> <<>>]
    /\ kres = "none"

InitFocus ==
    /\ fk = [t \in Tasks |-> 0]
    /\ ftarget = [t \in Tasks |-> -1]

\* laser.py:37  initialize leaves the laser on at 1 mW.
InitLaser ==
    /\ lpc = "idle"
    /\ ltgt = 1
    /\ lset = 1
    /\ lpw = 1
    /\ lrd = -1
    /\ lres = "none"

InitTilt ==
    /\ tpc = 0
    /\ tsent = <<>>
    /\ tack = 0

\* dcam.py:36-40  SensorMode
AREA == 1
LINE == 3
TDI == 4
PARTIAL_AREA == 6
SensorModes == {AREA, LINE, TDI, PARTIAL_AREA}

\* dcam.py:83-84  the two properties the sensor mode is kept in.
PropKeys == {"sensor_mode", "sensor_mode_line_bundle_height"}

\* dcam.py:84  128 if m == SensorMode.TDI else 64
LineBundleHeight(m) == IF m = TDI THEN 128 ELSE 64

\* The map DCAMDict.from_dcam reads from a camera that was just opened:
\* both cameras the same, in area mode.
DefaultProps ==
    [k \in PropKeys |-> IF k = "sensor_mode" THEN AREA ELSE LineBundleHeight(AREA)]

NoCall == [kind |-> "none", key |-> "sensor_mode", args |-> <<>>]
NoOutcome == [out |-> "none", v |-> 0]

InitProps ==
    /\ props = [c \in CamIds |-> DefaultProps]
    /\ vpc = "idle"
    /\ vcall = NoCall
    /\ vtodo = <<>>
    /\ vres = NoOutcome

InitDevices ==
    /\ InitCameras
    /\ InitFocus
    /\ InitLaser
    /\ InitTilt
    /\ InitProps

othersOfCam == <<valveVars, imagerVars, focusVars, laserVars, tiltVars, propVars>>

\* dcam.py:250-257  capture(n_bundles, start_alloc, start_capture) begins.
CallCapture(n) ==
    /\ kpc = "idle"
    /\ kres = "none"
    /\ kn' = n
    /\ kpc' = "alloc0"
    /\ UNCHANGED <<al, cp, lk, fr, rdc, curr, taken, ki, kend, kph, thunk, kexc, kres>>
    /\ UNCHANGED <<cpd, othersOfCam>>

\* The scopes unwound without the finally of _Camera.capture.
Cleanup_NoIdle(scope) ==
    CASE scope = "capture"  -> "free1"
      [] scope = "capture0" -> "free1"
      [] scope = "alloc"    -> "free1"
      [] scope = "alloc0"   -> "free0"

\* dcam.py:88-91, 103-107, 240, 257, 260  where control goes when the body
\* of a scope is left: the finally of the innermost scope entered, camera 1
\* before camera 0, capture (dcam_idle) before alloc (dcam_freeframe).
Cleanup(scope) ==
    CASE scope = "capture"  -> "idle1"
      [] scope = "capture0" -> "idle0"
      [] scope = "alloc"    -> "free1"
      [] scope = "alloc0"   -> "free0"

\* dcam.py:98, 240  dcam_allocframe on camera c, camera 0 first.  A raise of
\* the call on camera 0 leaves capture at once: no scope is entered yet.
AllocFrame(c) ==
    /\ kpc = (IF c = 0 THEN "alloc0" ELSE "alloc1")
    /\ \E ok \in BOOLEAN :
          IF ok
          THEN /\ al' = [al EXCEPT ![c] = "alloc"]
               /\ kpc' = (IF c = 0 THEN "alloc1" ELSE "start_alloc")
               /\ UNCHANGED <<kexc, kres>>
          ELSE /\ kexc' = TRUE
               /\ kpc' = (IF c = 0 THEN "done" ELSE Cleanup("alloc0"))
               /\ kres' = (IF c = 0 THEN "raised" ELSE kres)
               /\ UNCHANGED al
    /\ UNCHANGED <<kn, cp, lk, fr, rdc, curr, taken, ki, kend, kph, thunk>>
    /\ UNCHANGED <<cpd, othersOfCam>>

\* The first thunk followed by start_capture at once, before capture is armed.
StartAlloc_SkipsArm ==
    /\ kpc = "start_alloc"
    /\ kpc' = "start"
    /\ taken' = 0
    /\ UNCHANGED <<kn, al, cp, lk, fr, rdc, curr, ki, kend, kph, thunk, kexc, kres>>
    /\ UNCHANGED <<cpd, othersOfCam>>

\* dcam.py:258-259  taken = 0; start_alloc()
StartAlloc ==
    /\ kpc = "start_alloc"
    /\ taken' = 0
    /\ \E ok \in BOOLEAN :
          IF ok
          THEN kpc' = "arm0" /\ UNCHANGED kexc
          ELSE kpc' = Cleanup("alloc") /\ kexc' = TRUE
    /\ UNCHANGED <<kn, al, cp, lk, fr, rdc, curr, ki, kend, kph, thunk, kres>>
    /\ UNCHANGED <<cpd, othersOfCam>>

\* dcam.py:87, 260  dcam_capture on camera c, camera 0 first.
DcamCapture(c) ==
    /\ kpc = (IF c = 0 THEN "arm0" ELSE "arm1")
    /\ \E ok \in BOOLEAN :
          IF ok
          THEN /\ cp' = [cp EXCEPT ![c] = "armed"]
               /\ kpc' = (IF c = 0 THEN "arm1" ELSE "start")
               /\ UNCHANGED kexc
          ELSE /\ kexc' = TRUE
               /\ kpc' = (IF c = 0 THEN Cleanup("alloc") ELSE Cleanup("capture0"))
               /\ UNCHANGED cp
    /\ UNCHANGED <<kn, al, lk, fr, rdc, curr, taken, ki, kend, kph, thunk, kres>>
    /\ UNCHANGED <<cpd, othersOfCam>>

\* dcam.py:261  start_capture(): the thunk is called; it returns or raises.
StartCapture ==
    /\ kpc = "start"
    /\ thunk' = thunk + 1
    /\ \E ok \in BOOLEAN :
          IF ok
          THEN kpc' = "poll0" /\ UNCHANGED kexc
          ELSE kpc' = Cleanup("capture") /\ kexc' = TRUE
    /\ UNCHANGED <<kn, al, cp, lk, fr, rdc, curr, taken, ki, kend, kph, kres>>
    /\ UNCHANGED <<cpd, othersOfCam>>

\* An armed camera delivers its next frame; it stops after n_bundles frames.
FrameArrives(c) ==
    /\ cp[c] = "armed"
    /\ fr[c] < kn
    /\ fr' = [fr EXCEPT ![c] = fr[c] + 1]
    /\ UNCHANGED <<kpc, kn, al, cp, lk, rdc, curr, taken, ki, kend, kph, thunk, kexc, kres>>
    /\ UNCHANGED <<cpd, othersOfCam>>

\* The pair's count taken as the larger of the two.
PairFrames_Max(a, b) == IF a < b THEN b ELSE a

\* dcam.py:236  min([c.n_frames_taken for c in self])
PairFrames(a, b) == IF a < b THEN a ELSE b

\* The loop left at the first look at the counts.
KeepPolling_Never(count, n) == FALSE

\* dcam.py:262  while (curr := self.n_frames_taken) < n_bundles
KeepPolling(count, n) == count < n

\* Where an exception raised while bundles are copied goes: the copy of line
\* 265 is inside the capture scopes, the copy of line 268 only inside alloc.
CopyScope == IF kph = "loop" THEN "capture" ELSE "alloc"

\* dcam.py:133-134, 236, 262-266  the loop condition reads the frame count
\* of camera 0, then of camera 1, and takes the smaller; below n_bundles it
\* sleeps and copies the bundles that are new, else the capture scope ends.
PollCount(c) ==
    /\ kpc = (IF c = 0 THEN "poll0" ELSE "poll1")
    /\ \E ok \in BOOLEAN :
          IF ~ok
          THEN /\ kexc' = TRUE
               /\ kpc' = Cleanup("capture")
               /\ UNCHANGED <<rdc, curr, ki, kend, kph>>
          ELSE IF c = 0
          THEN /\ rdc' = fr[0]
               /\ kpc' = "poll1"
               /\ UNCHANGED <<curr, ki, kend, kph, kexc>>
          ELSE LET m == PairFrames(rdc, fr[1]) IN
               /\ curr' = m
               /\ IF KeepPolling(m, kn)
                  THEN IF m > taken
                       THEN /\ ki' = taken
                            /\ kend' = m
                            /\ kph' = "loop"
                            /\ kpc' = "lock0"
                       ELSE /\ kpc' = "poll0"
                            /\ UNCHANGED <<ki, kend, kph>>
                  ELSE /\ kpc' = Cleanup("capture")
                       /\ UNCHANGED <<ki, kend, kph>>
               /\ UNCHANGED <<rdc, kexc>>
    /\ UNCHANGED <<kn, al, cp, lk, fr, taken, thunk, kres>>
    /\ UNCHANGED <<cpd, othersOfCam>>

\* The bundles copied in a turn of the loop not marked as taken.
TakenAfter_Kept(count, before) == before

\* dcam.py:266  taken = curr
TakenAfter(count, before) == count

\* dcam.py:113, 159, 245-246  get_bundles: dcam_lockdata of bundle ki on
\* camera c, camera 0 first.
LockData(c) ==
    /\ kpc = (IF c = 0 THEN "lock0" ELSE "lock1")
    /\ \E ok \in BOOLEAN :
          IF ok
          THEN /\ lk' = [lk EXCEPT ![c] = TRUE]
               /\ kpc' = (IF c = 0 THEN "copy0" ELSE "copy1")
               /\ UNCHANGED kexc
          ELSE /\ kexc' = TRUE
               /\ kpc' = Cleanup(CopyScope)
               /\ UNCHANGED lk
    /\ UNCHANGED <<kn, al, cp, fr, rdc, curr, taken, ki, kend, kph, thunk, kres>>
    /\ UNCHANGED <<cpd, othersOfCam>>

\* dcam.py:114-117, 160-162, 265-268  the bundle is copied and, in the
\* finally, unlocked; then the other camera, the next bundle, or the end of
\* the range (line 266: taken = curr).
CopyUnlock(c) ==
    /\ kpc = (IF c = 0 THEN "copy0" ELSE "copy1")
    /\ lk' = [lk EXCEPT ![c] = FALSE]
    /\ \E ok \in BOOLEAN :
          /\ cpd' = [cpd EXCEPT ![c] = IF ok THEN Append(@, ki) ELSE @]
          /\ IF ~ok
             THEN /\ kexc' = TRUE
                  /\ kpc' = Cleanup(CopyScope)
                  /\ UNCHANGED <<ki, taken>>
             ELSE IF c = 0
             THEN /\ kpc' = "lock1"
                  /\ UNCHANGED <<ki, taken, kexc>>
             ELSE IF ki + 1 < kend
             THEN /\ ki' = ki + 1
                  /\ kpc' = "lock0"
                  /\ UNCHANGED <<taken, kexc>>
             ELSE IF kph = "loop"
             THEN /\ taken' = TakenAfter(curr, taken)
                  /\ kpc' = "poll0"
                  /\ UNCHANGED <<ki, kexc>>
             ELSE /\ kpc' = Cleanup("alloc")
                  /\ UNCHANGED <<ki, taken, kexc>>
    /\ UNCHANGED <<kn, al, cp, fr, rdc, curr, kend, kph, thunk, kres>>
    /\ UNCHANGED othersOfCam

Max(a, b) == IF a < b THEN b ELSE a

\* dcam.py:90-91, 260, 267-268  the finally of _Camera.capture: dcam_idle
\* on camera 1, then on camera 0.  When the scope was left normally the
\* bundles not copied yet follow: range(taken, max(curr, n_bundles)).
DcamIdle(c) ==
    /\ kpc = (IF c = 1 THEN "idle1" ELSE "idle0")
    /\ cp' = [cp EXCEPT ![c] = "idle"]
    /\ \E ok \in BOOLEAN :
          /\ kexc' = (kexc \/ ~ok)
          /\ IF c = 1
             THEN /\ kpc' = "idle0"
                  /\ UNCHANGED <<ki, kend, kph>>
             ELSE IF ~kexc' /\ taken < Max(curr, kn)
             THEN /\ ki' = taken
                  /\ kend' = Max(curr, kn)
                  /\ kph' = "drain"
                  /\ kpc' = "lock0"
             ELSE /\ kpc' = Cleanup("alloc")
                  /\ UNCHANGED <<ki, kend, kph>>
    /\ UNCHANGED <<kn, al, lk, fr, rdc, curr, taken, thunk, kres>>
    /\ UNCHANGED <<cpd, othersOfCam>>

\* dcam.py:105-107, 240, 269  the finally of _Camera.alloc: dcam_freeframe
\* on camera 1, then on camera 0; capture then returns the images or raises.
FreeFrame(c) ==
    /\ kpc = (IF c = 1 THEN "free1" ELSE "free0")
    /\ al' = [al EXCEPT ![c] = "freed"]
    /\ \E ok \in BOOLEAN :
          /\ kexc' = (kexc \/ ~ok)
          /\ IF c = 1
             THEN kpc' = "free0" /\ UNCHANGED kres
             ELSE kpc' = "done" /\ kres' = (IF kexc' THEN "raised" ELSE "ok")
    /\ UNCHANGED <<kn, cp, lk, fr, rdc, curr, taken, ki, kend, kph, thunk>>
    /\ UNCHANGED <<cpd, othersOfCam>>

\* The caller has the outcome of the capture; the cameras are as new.
CaptureReturn ==
    /\ kpc = "done"
    /\ kpc' = "idle"
    /\ kn' = 0
    /\ al' = [c \in CamIds |-> "none"]
    /\ cp' = [c \in CamIds |-> "none"]
    /\ lk' = [c \in CamIds |-> FALSE]
    /\ fr' = [c \in CamIds |-> 0]
    /\ rdc' = 0
    /\ curr' = 0
    /\ taken' = 0
    /\ ki' = 0
    /\ kend' = 0
    /\ kph' = "loop"
    /\ thunk' = 0
    /\ kexc' = FALSE
    /\ cpd' = [c \in CamIds |-> <<>>]
    /\ kres' = "none"
    /\ UNCHANGED othersOfCam

(***************************************************************************)
(* Laser.set_power: laser.py:39-49.  The worker sends POWER=x and polls    *)
(* POWER? once a second; the laser moves towards the power it was told.    *)
(***************************************************************************)
\* laser.py:30  POWER_RANGE = (0, 500)
POWER_MIN == 0
POWER_MAX == 500
\* Powers tried on set_power: the ends of the range, their neighbours
\* outside it, and a power inside.
PowerInputs == {-1, 0, 100, 500, 501}
\* Powers the laser passes through: around 0 and 100, both sides of the
\* 3 mW margin, and the top of the range.
PowerLevels == {0, 1, 4, 96, 97, 100, 103, 104, 500}

othersOfLaser == <<valveVars, imagerVars, camVars, focusVars, tiltVars, propVars>>

Abs(x) == IF x < 0 THEN -x ELSE x

CallSetPower(power) ==
    /\ lpc = "idle"
    /\ ltgt' = power
    /\ lpc' = "set"
    /\ UNCHANGED <<lset, lpw, lrd, lres>>
    /\ UNCHANGED othersOfLaser

\* is_between(f, min, max)(x): x is sent only if min <= x <= max.
InPowerRange(power) == POWER_MIN <= power /\ power <= POWER_MAX

\* laser.py:41  self.com.repl(is_between(LaserCmd.SET_POWER, *POWER_RANGE)(power))
LaserSet ==
    /\ lpc = "set"
    /\ IF InPowerRange(ltgt)
       THEN /\ lset' = ltgt
            /\ lpc' = "poll"
            /\ UNCHANGED lres
       ELSE /\ lres' = "ValueError"
            /\ lpc' = "done"
            /\ UNCHANGED lset
    /\ UNCHANGED <<ltgt, lpw, lrd>>
    /\ UNCHANGED othersOfLaser

\* laser.py:42  while self.power.result() - power > 3
StillFar(readback, power) == readback - power > 3

\* laser.py:42-43, 47-49  one turn of the loop: read the power back; sleep
\* and poll again while the condition holds, else the worker is done.
LaserPoll ==
    /\ lpc = "poll"
    /\ lrd' = lpw
    /\ IF StillFar(lpw, ltgt)
       THEN UNCHANGED <<lpc, lres>>
       ELSE lpc' = "done" /\ lres' = "ok"
    /\ UNCHANGED <<ltgt, lset, lpw>>
    /\ UNCHANGED othersOfLaser

\* The laser's output moves closer to the power it was told to go to.
LaserRamp ==
    /\ lpw # lset
    /\ \E q \in PowerLevels :
          /\ Abs(q - lset) < Abs(lpw - lset)
          /\ lpw' = q
    /\ UNCHANGED <<lpc, ltgt, lset, lrd, lres>>
    /\ UNCHANGED othersOfLaser

\* The caller has the outcome of set_power.
LaserReturn ==
    /\ lpc = "done"
    /\ lpc' = "idle"
    /\ ltgt' = lset
    /\ lrd' = -1
    /\ lres' = "none"
    /\ UNCHANGED <<lset, lpw>>
    /\ UNCHANGED othersOfLaser

(***************************************************************************)
(* TiltStage.initialize: tiltstage.py:37-48.  com.send queues a command    *)
(* and returns its future at once; the FPGA answers in the order sent.     *)
(***************************************************************************)
\* tiltstage.py:15  ID = Literal[1, 3, 2], in the order of get_args(ID).
MotorIds == <<1, 3, 2>>

TiltCommand(kind, i) == [kind |-> kind, motor |-> i]

\* tiltstage.py:39-41  for i: send SET_CURRENT(i, 35), send SET_VELO(i, 62500)
TiltSetUp ==
    [n \in 1..6 |-> TiltCommand(IF n % 2 = 1 THEN "CUR" ELSE "VL", MotorIds[(n + 1) \div 2])]

\* tiltstage.py:43-44  three times: send the tuple of CLEAR_REGISTER(i)
TiltClears == [n \in 1..9 |-> TiltCommand("CR", MotorIds[((n - 1) % 3) + 1])]

\* tiltstage.py:47-48  for i: send GO_HOME(i)
TiltHomes == [n \in 1..3 |-> TiltCommand("HM", MotorIds[n])]

\* tiltstage.py:38-48  the steps of initialize; WAIT is line 45, the
\* results of the futures of the last tuple sent.
TiltProgram ==
    <<TiltCommand("TDIZ_PI_STAGE", 0)>> \o TiltSetUp \o TiltClears
        \o <<TiltCommand("WAIT", 0)>> \o TiltHomes

othersOfTilt == <<valveVars, imagerVars, camVars, focusVars, laserVars, propVars>>

\* self.com.send(...): the next command of initialize is queued.
TiltSend ==
    /\ tpc < Len(TiltProgram)
    /\ TiltProgram[tpc + 1].kind # "WAIT"
    /\ tsent' = Append(tsent, TiltProgram[tpc + 1])
    /\ tpc' = tpc + 1
    /\ UNCHANGED tack
    /\ UNCHANGED othersOfTilt

\* tiltstage.py:45  [f.result() for f in fut]: the last clears are answered.
TiltWait ==
    /\ tpc < Len(TiltProgram)
    /\ TiltProgram[tpc + 1].kind = "WAIT"
    /\ tack = Len(tsent)
    /\ tpc' = tpc + 1
    /\ UNCHANGED <<tsent, tack>>
    /\ UNCHANGED othersOfTilt

\* The FPGA answers the oldest command not answered yet.
TiltAck ==
    /\ tack < Len(tsent)
    /\ tack' = tack + 1
    /\ UNCHANGED <<tpc, tsent>>
    /\ UNCHANGED othersOfTilt

\* initialize has returned and every command is answered.
TiltReturn ==
    /\ tpc = Len(TiltProgram)
    /\ tack = Len(tsent)
    /\ tpc' = 0
    /\ tsent' = <<>>
    /\ tack' = 0
    /\ UNCHANGED othersOfTilt

(***************************************************************************)
(* The valve specification: one caller, any starting positions.            *)
(***************************************************************************)
InitValves ==
    /\ hw \in [ValveIds -> StartPorts]
    /\ job = [j \in JobIds |-> NoJob]
    /\ plock = "free"
    /\ pc = [t \in Tasks |-> "idle"]
    /\ op = [t \in Tasks |-> NoOp]
    /\ ctx = [t \in Tasks |-> "direct"]
    /\ mp = [t \in Tasks |-> 1]
    /\ exc = [t \in Tasks |-> "ok"]
    /\ rd = [t \in Tasks |-> [v \in ValveIds |-> 0]]
    /\ res = [t \in Tasks |-> "none"]
    /\ mres = [t \in Tasks |-> "none"]
    /\ start0 = 0
    /\ gos = [v \in ValveIds |-> <<>>]
    /\ ncmd = [v \in ValveIds |-> 0]

InitValveSpec ==
    /\ InitValves
    /\ InitImager
    /\ InitDevices

NextValves ==
    \/ \E j \in JobIds : JobAcquire(j)
    \/ \E j \in JobIds : JobRead1(j)
    \/ \E j \in JobIds : JobGo(j)
    \/ \E j \in JobIds : JobRead2(j)
    \/ \E t \in ValveCallers, v \in ValveIds, p \in StartPorts : CallValveMove(t, v, p)
    \/ \E t \in ValveCallers : ValveMoveEnds(t)
    \/ \E t \in ValveCallers, p \in PortInputs : CallMove(t, p)
    \/ \E t \in ValveCallers, p \in PortInputs, r \in BOOLEAN : CallPortSafety(t, p, r)
    \/ \E t \in ValveCallers : MoveEnter(t)
    \/ \E t \in ValveCallers : MoveMoved(t)
    \/ \E t \in ValveCallers : MoveRaises(t)
    \/ \E t \in ValveCallers, v \in ValveIds : MovePosRead(t, v)
    \/ \E t \in ValveCallers : MoveAssert(t)
    \/ \E t \in ValveCallers : PortSafetyBody(t)
    \/ \E t \in ValveCallers : Return(t)

SpecValves == InitValveSpec /\ [][NextValves]_vars

(***************************************************************************)
(* The wait_ready specification: one task in wait_ready while others send  *)
(* on the three channels.                                                  *)
(***************************************************************************)
InitWait ==
    /\ InitValves
    /\ hw = [v \in ValveIds |-> 1]
    /\ InitImager
    /\ InitDevices

NextWait ==
    \/ \E c \in Chans : Submit(c)
    \/ \E c \in Chans : Complete(c)
    \/ \E t \in WaitCallers : CallWaitReady(t)
    \/ \E t \in WaitCallers : WaitStep(t)
    \/ \E t \in WaitCallers : IReturn(t)

SpecWait == InitWait /\ [][NextWait]_vars

(***************************************************************************)
(* Properties of the valves.                                               *)
(***************************************************************************)
\* The logical position of the pair, from the physical positions: 9 + the
\* position of valve 1 when valve 0 is at 10, else the position of valve 0.
ValvesAt == IF hw[0] = 10 THEN 9 + hw[1] ELSE hw[0]

ReagentPorts == (1..8) \cup (10..18)

Ended(t, kind) == pc[t] = "done" /\ op[t].kind = kind

LastTwo(s) == IF Len(s) < 2 THEN s ELSE SubSeq(s, Len(s) - 1, Len(s))

\* C1: whenever Valves.move(p), p in 1..8 or 10..18, has returned
\* successfully, the pair is at logical position p, whatever the positions
\* the two valves started from.
C1_MoveReachesPort ==
    \A t \in Tasks :
        (Ended(t, "move") /\ op[t].p \in ReagentPorts /\ res[t] = "ok")
            => ValvesAt = op[t].p

\* A move to a high port that turned both valves has returned successfully.
C1_Witness ==
    \E t \in Tasks :
        /\ Ended(t, "move") /\ op[t].p = 14 /\ res[t] = "ok"
        /\ Len(gos[0]) > 0 /\ Len(gos[1]) > 0

\* C2 (as claimed): Valves.move(9) called directly ends in a validation
\* error and sends no GO to either valve.
C2_Move9Rejected ==
    \A t \in Tasks :
        Ended(t, "move") /\ op[t].p = 9
            => res[t] = "ValueError" /\ gos[0] = <<>> /\ gos[1] = <<>>

\* C3 (as claimed): once port_safety(p) is left the pair is at 9, and with
\* p = 3 and a raising body the last two GO sent to valve 0 are GO3, GO9.
C3_AlwaysNineAndGo3Go9 ==
    \A t \in Tasks :
        Ended(t, "safety")
            => /\ ValvesAt = 9
               /\ (op[t].p = 3 /\ op[t].raises) => LastTwo(gos[0]) = <<3, 9>>

\* The closing move(9) of the scope raised.
ClosingMoveRaised(t) == ctx[t] = "exit" /\ mres[t] # "ok"

\* C3 (amended): once port_safety(p) is left without its closing move(9)
\* having raised, the pair is at 9, after a normal and after a raising body
\* alike; and with p = 3, valve 0 not at 3 on entry and the body's exception
\* the one that leaves the scope, the last two GO sent to valve 0 are GO3
\* then GO9.
C3_SafetyLeavesNine ==
    \A t \in Tasks :
        (Ended(t, "safety") /\ ~ClosingMoveRaised(t))
            => /\ ValvesAt = 9
               /\ (op[t].p = 3 /\ res[t] = "BodyError" /\ start0 # 3)
                     => LastTwo(gos[0]) = <<3, 9>>

\* port_safety(3) has been left by the exception of its body, valve 0 having
\* been turned to 3 and back to 9.
C3_Witness ==
    \E t \in Tasks :
        /\ Ended(t, "safety") /\ op[t].p = 3 /\ res[t] = "BodyError"
        /\ start0 # 3 /\ gos[0] = <<3, 9>> /\ ValvesAt = 9

\* C4: Valve.move(p) on a valve whose position readback already is p sends
\* no GO and returns successfully.
C4_NoGoWhenThere ==
    \A t \in Tasks :
        (Ended(t, "vmove") /\ job[<<t, op[t].v>>].rb1 = op[t].p)
            => res[t] = "ok" /\ ~job[<<t, op[t].v>>].went

\* Valve.move(p) has returned from a valve that was at p already.
C4_Witness ==
    \E t \in Tasks :
        /\ Ended(t, "vmove") /\ job[<<t, op[t].v>>].rb1 = op[t].p
        /\ res[t] = "ok" /\ hw[op[t].v] = op[t].p

\* C5: after a successful Valve.move(p) the next position readback is p; a
\* move whose valve is not at p after GO does not return but raises the
\* position-verify failure.
C5_MoveVerified ==
    \A t \in Tasks :
        Ended(t, "vmove")
            => /\ res[t] = "ok" => ValvePos(op[t].v) = op[t].p
               /\ (job[<<t, op[t].v>>].went /\ hw[op[t].v] # op[t].p)
                     => res[t] = "PositionError"

\* Valve.move(p) has sent GO and returned successfully.
C5_Witness ==
    \E t \in Tasks :
        /\ Ended(t, "vmove") /\ job[<<t, op[t].v>>].went
        /\ res[t] = "ok" /\ ValvePos(op[t].v) = op[t].p

(***************************************************************************)
(* The take specification: one caller of take, the channels quiet.         *)
(***************************************************************************)
NextTake ==
    \/ \E t \in TakeCallers, n \in NBundleInputs, d \in BOOLEAN,
          c \in ChannelSets, b \in BOOLEAN : CallTake(t, n, d, c, b)
    \/ \E t \in TakeCallers : TakeEnter(t)
    \/ \E t \in TakeCallers : WaitStep(t)
    \/ \E t \in TakeCallers : TakeSnapshot(t)
    \/ \E t \in TakeCallers : PrepDone(t)
    \/ \E t \in TakeCallers : ModeDone(t)
    \/ \E t \in TakeCallers : TakeCapture(t)
    \/ \E t \in TakeCallers : CapAlloc(t)
    \/ \E t \in TakeCallers : CapArm(t)
    \/ \E t \in TakeCallers : CapStart(t)
    \/ \E t \in TakeCallers : CapCollect(t)
    \/ \E t \in TakeCallers : CapRelease(t)
    \/ \E t \in TakeCallers : ShutterOpen(t)
    \/ \E t \in TakeCallers : TakeCaptured(t)
    \/ \E t \in TakeCallers : ShutterClose(t)
    \/ \E t \in TakeCallers : TakeMoveBack(t)
    \/ \E t \in TakeCallers : CapFail(t)
    \/ \E t \in TakeCallers : TakeCaptureRaised(t)
    \/ \E t \in TakeCallers : TakeRaise(t)
    \/ \E t \in TakeCallers : IReturn(t)

SpecTake == InitWait /\ [][NextTake]_vars

\* Occurrences of x in the sequence s.
Count(s, x) == Cardinality({i \in 1..Len(s) : s[i] = x})

\* A direct Valves.move to a low port is under way.
LowMove(t) == op[t].kind = "move" /\ op[t].p \in 1..8 /\ pc[t] \notin {"idle", "done"}

\* No valve move abandoned by an earlier failed gather is still running.
NoOrphan == \A o \in OrphanIds : job[o].pc = "none"

\* C18 (as claimed): a Valves.move(p) with p in 1..8 that began with valve 0
\* away from p has, when it ends, sent exactly one GO<p> to valve 0 and no
\* command of any kind to valve 1.
C18_NothingOnSecondValve ==
    \A t \in Tasks :
        (Ended(t, "move") /\ op[t].p \in 1..8 /\ start0 # op[t].p /\ NoOrphan)
            => /\ Count(gos[0], op[t].p) = 1
               /\ ncmd[1] = 0

\* What a step may do to valve 1 while task t is in a low-port move and no
\* abandoned move is running: send no GO, and send a command only as the
\* one position query of the closing readback.
LowMoveStep(t) ==
    (LowMove(t) /\ NoOrphan)
        => /\ gos'[1] = gos[1]
           /\ ncmd'[1] # ncmd[1]
                 => /\ ncmd'[1] = ncmd[1] + 1
                    /\ pc[t] = "m_pos"
                    /\ rd[t][1] = 0 /\ rd'[t][1] # 0

\* C18 (amended): such a move sends exactly one GO<p> to valve 0 and no GO
\* to valve 1; the only command it sends to valve 1 is the position query
\* of the closing readback, once, which a successful move always sends.
C18_OnlyReadbackOnSecondValve ==
    /\ [](\A t \in Tasks :
            (Ended(t, "move") /\ op[t].p \in 1..8 /\ start0 # op[t].p)
                => /\ Count(gos[0], op[t].p) = 1
                   /\ res[t] = "ok" => ncmd[1] >= 1)
    /\ [][\A t \in Tasks : LowMoveStep(t)]_vars

\* move(5) has returned from valve 0 at another port: one GO to valve 0,
\* none to valve 1, and one command, the readback, on valve 1.
C18_Witness ==
    \E t \in Tasks :
        /\ Ended(t, "move") /\ op[t].p = 5 /\ start0 # 5 /\ res[t] = "ok"
        /\ gos[0] = <<5>> /\ gos[1] = <<>> /\ ncmd[1] = 1

\* C24 (as claimed): whenever the pair lock is free, no Valve.move that a
\* Valves.move started is still in progress: none that a task inside
\* Valves.move awaits, and none left behind by a Valves.move that raised.
C24_NoMoveOutlivesPairLock ==
    plock = "free" =>
        /\ \A o \in OrphanIds : job[o].pc \notin Running
        /\ \A t \in Tasks : pc[t] # "vm" => \A j \in Mine(t) : job[j].pc \notin Running

(***************************************************************************)
(* The movers specification: two tasks calling Valve.move on the valves    *)
(* at the same time.                                                       *)
(***************************************************************************)
NextMovers ==
    \/ \E j \in JobIds : JobAcquire(j)
    \/ \E j \in JobIds : JobRead1(j)
    \/ \E j \in JobIds : JobGo(j)
    \/ \E j \in JobIds : JobRead2(j)
    \/ \E t \in Tasks, v \in ValveIds, p \in StartPorts : CallValveMove(t, v, p)
    \/ \E t \in Tasks : ValveMoveEnds(t)
    \/ \E t \in Tasks : Return(t)

SpecMovers == InitValveSpec /\ [][NextMovers]_vars

\* The Valve.move calls inside the big lock of valve v.
Holders(v) == {j \in JobIds : job[j].v = v /\ job[j].pc \in Holding}

\* What a step that is not a step of the Valve.move j may do while j is
\* between taking and leaving the big lock: send nothing to j's valve and
\* leave its rotor where it is.
MoverStep(j) ==
    (job[j].pc \in Holding /\ job'[j] = job[j])
        => /\ ncmd'[job[j].v] <= ncmd[job[j].v]
           /\ Len(gos'[job[j].v]) <= Len(gos[job[j].v])
           /\ hw'[job[j].v] = hw[job[j].v]

\* C22: at most one Valve.move call on a valve is inside the big lock, where
\* its position read, GO and confirming read are all sent; and from its
\* taking the lock to its leaving it no step but its own sends a command to
\* the valve or moves the rotor.
C22_MoversNeverInterleave ==
    /\ [](\A v \in ValveIds : Cardinality(Holders(v)) <= 1)
    /\ [][\A j \in JobIds : MoverStep(j)]_vars

\* Two tasks are in Valve.move on the same valve: one has sent its GO and
\* not yet its confirming read, the other waits for the big lock.
C22_Witness ==
    \E j, k \in Tasks \X ValveIds :
        /\ j[1] # k[1]
        /\ job[j].v = job[k].v
        /\ job[j].pc = "r2"
        /\ job[k].pc = "wait"
        /\ ncmd[job[j].v] = 2

(***************************************************************************)
(* Properties of the imager.                                               *)
(***************************************************************************)
\* C6 (as claimed): at the step by which wait_ready returns, none of the X,
\* Y and FPGA channels has an unfinished send, other tasks sending
\* meanwhile or not.
C6_ReadyMeansAllIdle ==
    [][\A t \in Tasks :
          (iop[t].kind = "wait_ready" /\ ipc[t] = "w_f" /\ ipc'[t] = "done")
              => \A c \in Chans : pending'[c] = 0]_vars

IPos(e) == IF Happened(e) THEN CHOOSE i \in 1..Len(ev) : ev[i] = e ELSE 0

IEnded(t, kind) == ipc[t] = "done" /\ iop[t].kind = kind

Returned(t) == ires[t].kind \in {"pair", "bare"}

\* C7: take(n_bundles, ...) ends in a validation error, before anything is
\* done, for every n_bundles outside 1..1499 (0 and 1500 among them), and
\* only an n_bundles in 1..1499 gets past the bounds check.
C7_BundleBounds ==
    \A t \in Tasks :
        iop[t].kind = "take"
            => /\ (ipc[t] = "done" /\ iop[t].n \notin 1..1499)
                     => ires[t] = Raised("ValueError") /\ ev = <<>>
               /\ (ipc[t] = "done" /\ iop[t].n \in 1..1499 /\ iop[t].channels # {})
                     => ires[t].kind # "ValueError"
               /\ ipc[t] \notin {"idle", "t_lock", "done"} => iop[t].n \in 1..1499

\* take(1500) has ended in the validation error.
C7_Witness ==
    \E t \in Tasks :
        IEnded(t, "take") /\ iop[t].n = 1500 /\ ires[t].kind = "ValueError"

\* C8 (as claimed): a take(n, channels = C) that returns, C not empty,
\* returns an image of |C| channels, n * 128 rows and 2048 columns.
C8_ImageShape ==
    \A t \in Tasks :
        (IEnded(t, "take") /\ Returned(t) /\ iop[t].channels # {})
            => /\ ires[t].nch = Cardinality(iop[t].channels)
               /\ ires[t].rows = iop[t].n * 128
               /\ ires[t].cols = 2048

\* C9 (as claimed): every take that returns, returns the pair of the image
\* and the state snapshot, whichever cameras serve the channels.
C9_ReturnsPair ==
    \A t \in Tasks : (IEnded(t, "take") /\ Returned(t)) => ires[t].kind = "pair"

\* e happens only after d has.
After(d, e) == Happened(e) => (Happened(d) /\ IPos(d) < IPos(e))

\* C10 (as claimed): TDI prep, Y mode switch, frame allocation, capture arm,
\* Y motion start and shutter open begin in this order: none of them begins
\* before the one listed before it.
C10_StrictSequence ==
    /\ After("tdi_prep", "y_mode")
    /\ After("y_mode", "alloc")
    /\ After("alloc", "arm")
    /\ After("arm", "motion")
    /\ After("motion", "shutter_open")

\* C10 (amended): TDI prep and the Y mode switch are started together, TDI
\* prep first, and both are complete before frames are allocated or the
\* shutter is opened; allocation, capture arm and Y motion start follow in
\* this order; the shutter is opened only when the take is not dark, and is
\* not held back until the motion has started.
C10_Sequence ==
    /\ After("tdi_prep", "y_mode")
    /\ After("tdi_prep_done", "alloc") /\ After("y_mode_done", "alloc")
    /\ After("tdi_prep_done", "shutter_open") /\ After("y_mode_done", "shutter_open")
    /\ After("alloc", "arm")
    /\ After("arm", "motion")
    /\ \A t \in Tasks : (iop[t].kind = "take" /\ iop[t].dark) => ~Happened("shutter_open")

\* A take has returned whose shutter was opened before its frames were
\* allocated, all six steps having happened.
C10_Witness ==
    /\ \E t \in Tasks : IEnded(t, "take") /\ Returned(t)
    /\ \A e \in {"tdi_prep", "y_mode", "alloc", "arm", "motion", "shutter_open"} :
          Happened(e)
    /\ IPos("shutter_open") < IPos("alloc")

\* C14 (as claimed): when a take has exited after its Y motion started,
\* however it exited, the shutter is closed, the capture holds no frames
\* and Y has been moved back (to the start, or to end_y + 100000).
C14_FailedTakeRestores ==
    \A t \in Tasks :
        (IEnded(t, "take") /\ Happened("motion"))
            => /\ sh = "closed"
               /\ cpc[t] = "none"
               /\ Happened("y_back")

\* C17 (as claimed): once take(n, ...) has started the TDI prep, the line
\* count it passed is n * 128, n the requested bundle count; and once the
\* mode switch is complete Y is in IMAGING mode.
C17_TdiLinesRequested ==
    \A t \in Tasks :
        (iop[t].kind = "take" /\ Happened("tdi_prep"))
            => /\ tdi = iop[t].n * 128
               /\ Happened("y_mode_done") => ymode = "IMAGING"

\* C17 (amended): the line count passed is (n + 1) * 128, the requested
\* bundles and the flush bundle; for n = 2 it is 384; and once the mode
\* switch is complete Y is in IMAGING mode.
C17_TdiLines ==
    \A t \in Tasks :
        (iop[t].kind = "take" /\ Happened("tdi_prep"))
            => /\ tdi = (iop[t].n + 1) * 128
               /\ iop[t].n = 2 => tdi = 384
               /\ Happened("y_mode_done") => ymode = "IMAGING"

\* A take(2, ...) has prepared TDI and switched Y to IMAGING mode.
C17_Witness ==
    \E t \in Tasks :
        /\ iop[t].kind = "take" /\ iop[t].n = 2
        /\ Happened("tdi_prep_done") /\ Happened("y_mode_done")
        /\ tdi = 384 /\ ymode = "IMAGING"

(***************************************************************************)
(* The lock specification: two callers of take, autofocus and initialize.  *)
(***************************************************************************)
\* Arguments of take tried by the two callers: one rejected and one accepted
\* bundle count, no channel and one channel.
LockBundleInputs == {0, 1}
LockChannelSets == {{}, {0}}
LockFocusChannels == {1, 4}
LockArgmaxInputs == {100}

\* A step of the operation a task is in, past its call and its wait for
\* the lock.
Inside(t) ==
    \/ WaitStep(t)
    \/ TakeSnapshot(t)
    \/ PrepDone(t)
    \/ ModeDone(t)
    \/ TakeCapture(t)
    \/ CapAlloc(t)
    \/ CapArm(t)
    \/ CapStart(t)
    \/ CapCollect(t)
    \/ CapRelease(t)
    \/ ShutterOpen(t)
    \/ TakeCaptured(t)
    \/ ShutterClose(t)
    \/ TakeMoveBack(t)
    \/ CapFail(t)
    \/ TakeCaptureRaised(t)
    \/ TakeRaise(t)
    \/ AfArm(t)
    \/ AfOpen(t)
    \/ AfCapture(t)
    \/ AfClose(t)
    \/ AfDisarm(t)
    \/ \E k \in LockArgmaxInputs : AfCompute(t, k)
    \/ InitializeDone(t)

\* Taking the lock.
Enter(t) == TakeEnter(t) \/ AfEnter(t) \/ InitializeEnter(t)

NextLock ==
    \/ \E t \in Tasks, n \in LockBundleInputs, d \in BOOLEAN, c \in LockChannelSets :
          CallTake(t, n, d, c, TRUE)
    \/ \E t \in Tasks, c \in LockFocusChannels : CallAutofocus(t, c)
    \/ \E t \in Tasks : CallInitialize(t)
    \/ \E t \in Tasks : TakeEnter(t)
    \/ \E t \in Tasks : AfEnter(t)
    \/ \E t \in Tasks : InitializeEnter(t)
    \/ \E t \in Tasks : Inside(t)
    \/ \E t \in Tasks : IReturn(t)
    \/ \E t \in Tasks : AfReturn(t)

SpecLock == InitWait /\ [][NextLock]_vars

\* asyncio runs every task that can run, and asyncio.Lock wakes its waiters
\* in the order they came: whoever waits for the lock gets it if it is
\* released again and again.
SpecLockFair ==
    /\ SpecLock
    /\ \A t \in Tasks : WF_vars(Inside(t))
    /\ \A t \in Tasks : SF_vars(Enter(t))

(***************************************************************************)
(* The autofocus specification: one caller, every argmax index.            *)
(***************************************************************************)
ArgmaxInputs == 0..(AF_BUNDLES - 1)

NextFocus ==
    \/ \E t \in TakeCallers, c \in FocusChannels : CallAutofocus(t, c)
    \/ \E t \in TakeCallers : AfEnter(t)
    \/ \E t \in TakeCallers : WaitStep(t)
    \/ \E t \in TakeCallers : AfArm(t)
    \/ \E t \in TakeCallers : AfOpen(t)
    \/ \E t \in TakeCallers : AfCapture(t)
    \/ \E t \in TakeCallers : AfClose(t)
    \/ \E t \in TakeCallers : AfDisarm(t)
    \/ \E t \in TakeCallers, k \in ArgmaxInputs : AfCompute(t, k)
    \/ \E t \in TakeCallers : AfReturn(t)

SpecFocus == InitWait /\ [][NextFocus]_vars

\* In the critical section of take, autofocus or initialize.
InCS(t) == ipc[t] \notin {"idle", "t_lock", "done"}

\* C15 (safety): at most one task is inside the critical section of take,
\* autofocus or initialize, the one that holds the lock; and the lock is
\* free whenever nobody is inside, however the last holder left.
C15_OneInside ==
    /\ \A t1, t2 \in Tasks : (InCS(t1) /\ InCS(t2)) => t1 = t2
    /\ \A t \in Tasks : InCS(t) <=> ilock = t
    /\ (\A t \in Tasks : ~InCS(t)) => ilock = "free"

\* C15: the safety part at all times, and a caller waiting for the lock
\* eventually gets past it.
C15_LockSerialises ==
    /\ []C15_OneInside
    /\ \A t \in Tasks : (ipc[t] = "t_lock") ~> (ipc[t] # "t_lock")

\* One task is inside take while the other, having called autofocus, waits
\* for the lock.
C15_Witness ==
    \E t1, t2 \in Tasks :
        /\ InCS(t1) /\ iop[t1].kind = "take" /\ ilock = t1
        /\ ipc[t2] = "t_lock" /\ iop[t2].kind = "autofocus"

\* An autofocus of task t has returned its target.
Focused(t) == IEnded(t, "autofocus") /\ ires[t].kind = "focus"

\* The target is z_max - ((z_max - z_min) / 232 * k + z_min), with
\* z_min = 2621 and z_max = 60292, cut down to an integer: 232 times the
\* target is at most 232 times that value, and less than one more.
TargetTruncates(target, k) ==
    LET x232 == 232 * 60292 - ((60292 - 2621) * k + 232 * 2621)
    IN  232 * target <= x232 /\ x232 < 232 * (target + 1)

\* C20 (as claimed): for every argmax index k in 0..231 the target returned
\* is the truncated value, and for k = 100 it is 30806.
C20_TargetAsStated ==
    \A t \in Tasks :
        Focused(t)
            => /\ fk[t] \in 0..231
               /\ TargetTruncates(ftarget[t], fk[t])
               /\ fk[t] = 100 => ftarget[t] = 30806

\* C20 (amended): for every argmax index k in 0..231 the target returned
\* is the truncated value, and for k = 100 it is 32812.
C20_Target ==
    \A t \in Tasks :
        Focused(t)
            => /\ fk[t] \in 0..231
               /\ TargetTruncates(ftarget[t], fk[t])
               /\ fk[t] = 100 => ftarget[t] = 32812

\* An autofocus whose intensities peak at index 100 has returned 32812.
C20_Witness ==
    \E t \in Tasks : Focused(t) /\ fk[t] = 100 /\ ftarget[t] = 32812

(***************************************************************************)
(* The capture specification: Cameras.capture on the executor, the two     *)
(* cameras delivering frames.                                              *)
(***************************************************************************)
NextCapture ==
    \/ \E n \in 1..MaxBundles : CallCapture(n)
    \/ \E c \in CamIds : AllocFrame(c)
    \/ StartAlloc
    \/ \E c \in CamIds : DcamCapture(c)
    \/ StartCapture
    \/ \E c \in CamIds : FrameArrives(c)
    \/ \E c \in CamIds : PollCount(c)
    \/ \E c \in CamIds : LockData(c)
    \/ \E c \in CamIds : CopyUnlock(c)
    \/ \E c \in CamIds : DcamIdle(c)
    \/ \E c \in CamIds : FreeFrame(c)
    \/ CaptureReturn

SpecCapture == InitWait /\ [][NextCapture]_vars

(***************************************************************************)
(* Properties of Cameras.capture.                                          *)
(***************************************************************************)
\* C11: start_capture is called only when frames are allocated on both
\* cameras and dcam_capture has been issued on both (neither undone yet at
\* the call, as allocation and arming are only undone after it); it is never
\* called twice in a capture, and a capture that returns has called it once.
C11_ThunkAfterArm ==
    /\ thunk <= 1
    /\ kpc = "start" => \A c \in CamIds : al[c] = "alloc" /\ cp[c] = "armed"
    /\ thunk = 1 => \A c \in CamIds : al[c] # "none" /\ cp[c] # "none"
    /\ kres = "ok" => thunk = 1

\* A capture has returned its images, the thunk called once, both cameras
\* armed and released.
C11_Witness ==
    /\ kres = "ok"
    /\ thunk = 1
    /\ \A c \in CamIds : cp[c] = "idle" /\ fr[c] = kn

\* C12: the pair's count is the smaller of the two cameras' counts, so
\* while bundle ki is being copied (locked, or about to be, on either
\* camera) both cameras report more than ki frames.
C12_CopyBehindBoth ==
    /\ curr <= fr[0] /\ curr <= fr[1]
    /\ kpc \in {"lock0", "copy0", "lock1", "copy1"}
          => \A c \in CamIds : fr[c] > ki

\* A bundle is being copied from camera 1 inside the polling loop of a
\* capture where camera 0 ran ahead of camera 1.
C12_Witness ==
    /\ kpc = "copy1"
    /\ lk[1]
    /\ kph = "loop"
    /\ fr[0] > fr[1]

\* C13: when Cameras.capture has ended, normally or by a raise anywhere,
\* every camera whose frames were allocated has them freed, every camera
\* that was armed is idle and no bundle is locked; and at no time are a
\* camera's frames freed while it is still armed.
C13_ScopesReleased ==
    /\ kpc = "done"
          => \A c \in CamIds : al[c] # "alloc" /\ cp[c] # "armed" /\ ~lk[c]
    /\ \A c \in CamIds : al[c] = "freed" => cp[c] # "armed"
    /\ \A c \in CamIds : lk[c] => kpc = (IF c = 0 THEN "copy0" ELSE "copy1")

\* A capture has ended by a raise after both cameras were armed, and
\* both are idle and freed.
C13_Witness ==
    /\ kpc = "done"
    /\ kres = "raised"
    /\ \A c \in CamIds : cp[c] = "idle" /\ al[c] = "freed"

\* The indices 0, 1, .., n-1 in increasing order.
UpTo(n) == [i \in 1..n |-> i - 1]

\* C23: the bundle indices copied from each camera are at every moment
\* 0, 1, 2, .. in increasing order with none copied twice and none left
\* out, camera 1 never ahead of camera 0 and at most one bundle behind it;
\* and when capture(n_bundles) has returned, the indices copied from each
\* camera are exactly 0..n_bundles-1, however the counts moved between polls.
C23_EachBundleOnce ==
    /\ \A c \in CamIds : cpd[c] = UpTo(Len(cpd[c]))
    /\ Len(cpd[1]) <= Len(cpd[0])
    /\ Len(cpd[0]) <= Len(cpd[1]) + 1
    /\ kres = "ok" => \A c \in CamIds : cpd[c] = UpTo(kn)

\* A capture of three or more bundles has returned after a turn of the
\* loop copied bundle 0 alone and the counts then went from 1 to n_bundles
\* between two polls, the rest being copied in one go.
C23_Witness ==
    /\ kres = "ok"
    /\ kn >= 3
    /\ taken = 1
    /\ \A c \in CamIds : Len(cpd[c]) = kn

(***************************************************************************)
(* Cameras.capture with the executor thread running and the armed cameras  *)
(* delivering their frames.                                                *)
(***************************************************************************)
CaptureStep ==
    \/ \E c \in CamIds : AllocFrame(c)
    \/ StartAlloc
    \/ \E c \in CamIds : DcamCapture(c)
    \/ StartCapture
    \/ \E c \in CamIds : PollCount(c)
    \/ \E c \in CamIds : LockData(c)
    \/ \E c \in CamIds : CopyUnlock(c)
    \/ \E c \in CamIds : DcamIdle(c)
    \/ \E c \in CamIds : FreeFrame(c)

SpecCaptureFair ==
    /\ SpecCapture
    /\ WF_vars(CaptureStep)
    /\ \A c \in CamIds : WF_vars(FrameArrives(c))

\* C25: with the cameras delivering their frames, a capture that was
\* called ends, its capture and allocation scopes released on both cameras;
\* the polling loop is left without an exception only once the count of
\* the slower camera has reached n_bundles, so a capture that returns has
\* seen both counts at n_bundles or more.
C25_ReturnsOnceCountsReach ==
    /\ (kpc = "alloc0") ~> (kpc = "done" /\ \A c \in CamIds : cp[c] # "armed" /\ al[c] # "alloc")
    /\ [](kres = "ok" => \A c \in CamIds : fr[c] >= kn /\ cp[c] = "idle" /\ al[c] = "freed")
    /\ []((kpc \in {"idle1", "idle0"} /\ ~kexc) => \A c \in CamIds : fr[c] >= kn)

\* A capture has returned after polls that found the slower camera's count
\* above zero and below n_bundles.
C25_Witness ==
    /\ kpc = "done"
    /\ kres = "ok"
    /\ 0 < taken
    /\ taken < kn
    /\ \A c \in CamIds : fr[c] = kn /\ cp[c] = "idle" /\ al[c] = "freed"

(***************************************************************************)
(* The merged properties view of the camera pair: TwoProps, dcam.py.       *)
(***************************************************************************)
othersOfProps == <<valveVars, imagerVars, camVars, focusVars, laserVars, tiltVars>>

\* A property map: p[name] = value, and p[name].
PropWrite(m, name, value) == [m EXCEPT ![name] = value]
PropRead(m, name) == m[name]

\* Values written through the view: two sensor modes and the two line
\* bundle heights, on either key (the view does not look at the value).
PropInputs == {AREA, TDI, 64, 128}

\* Dictionaries passed to update, as the (name, value) pairs in the order
\* update goes through them.
UpdateInputs ==
    {<<>>,
     <<<<"sensor_mode", TDI>>, <<"sensor_mode_line_bundle_height", 128>>>>,
     <<<<"sensor_mode_line_bundle_height", 64>>, <<"sensor_mode", AREA>>>>}

\* dcam.py:81-84  the sensor_mode setter of one camera, on that camera's
\* own map: the mode, then the line bundle height that goes with it.
SetSensorMode(c, m) ==
    /\ vpc = "idle"
    /\ props' = [props EXCEPT ![c] =
                    PropWrite(PropWrite(@, "sensor_mode", m),
                              "sensor_mode_line_bundle_height", LineBundleHeight(m))]
    /\ UNCHANGED <<vpc, vcall, vtodo, vres>>
    /\ UNCHANGED othersOfProps

\* dcam.py:183  properties[name] = value on the merged view.
CallSetItem(name, value) ==
    /\ vpc = "idle"
    /\ vcall' = [kind |-> "set", key |-> name, args |-> <<<<name, value>>>>]
    /\ vtodo' = <<<<name, value>>>>
    /\ vpc' = "set0"
    /\ UNCHANGED <<props, vres>>
    /\ UNCHANGED othersOfProps

\* dcam.py:187-189  properties.update(to_change): self[k] = v for each item;
\* an empty dictionary writes nothing.
CallUpdate(items) ==
    /\ vpc = "idle"
    /\ vcall' = [kind |-> "update", key |-> "sensor_mode", args |-> items]
    /\ vtodo' = items
    /\ vpc' = IF items = <<>> THEN "done" ELSE "set0"
    /\ vres' = IF items = <<>> THEN [out |-> "ok", v |-> 0] ELSE vres
    /\ UNCHANGED props
    /\ UNCHANGED othersOfProps

\* dcam.py:184-185  p[name] = value on the next camera's map, camera 0
\* before camera 1; after camera 1 the next item of update, or the return.
SetItem(c) ==
    /\ vpc = (IF c = 0 THEN "set0" ELSE "set1")
    /\ props' = [props EXCEPT ![c] = PropWrite(@, vtodo[1][1], vtodo[1][2])]
    /\ IF c = 0
       THEN /\ vpc' = "set1"
            /\ UNCHANGED <<vtodo, vres>>
       ELSE /\ vtodo' = Tail(vtodo)
            /\ vpc' = IF Tail(vtodo) = <<>> THEN "done" ELSE "set0"
            /\ vres' = IF Tail(vtodo) = <<>> THEN [out |-> "ok", v |-> 0] ELSE vres
    /\ UNCHANGED vcall
    /\ UNCHANGED othersOfProps

\* dcam.py:177  properties[name] on the merged view.
CallGetItem(name) ==
    /\ vpc = "idle"
    /\ vcall' = [kind |-> "get", key |-> name, args |-> <<>>]
    /\ vpc' = "get"
    /\ UNCHANGED <<props, vtodo, vres>>
    /\ UNCHANGED othersOfProps

\* The two values never taken as different.
Diverged_Never(a, b) == FALSE

\* dcam.py:179  if (out := a[name]) != b[name]
Diverged(a, b) == a # b

\* dcam.py:178-181  read the name on both maps; raise when the values
\* differ, return camera 0's value otherwise.
GetItem ==
    /\ vpc = "get"
    /\ LET a == PropRead(props[0], vcall.key)
           b == PropRead(props[1], vcall.key)
       IN vres' = IF Diverged(a, b)
                  THEN [out |-> "diverged", v |-> 0]
                  ELSE [out |-> "value", v |-> a]
    /\ vpc' = "done"
    /\ UNCHANGED <<props, vcall, vtodo>>
    /\ UNCHANGED othersOfProps

\* The caller has the outcome of its call on the view.
ViewReturn ==
    /\ vpc = "done"
    /\ vpc' = "idle"
    /\ vcall' = NoCall
    /\ vres' = NoOutcome
    /\ UNCHANGED <<props, vtodo>>
    /\ UNCHANGED othersOfProps

NextProps ==
    \/ \E c \in CamIds, m \in SensorModes : SetSensorMode(c, m)
    \/ \E name \in PropKeys, value \in PropInputs : CallSetItem(name, value)
    \/ \E items \in UpdateInputs : CallUpdate(items)
    \/ \E c \in CamIds : SetItem(c)
    \/ \E name \in PropKeys : CallGetItem(name)
    \/ GetItem
    \/ ViewReturn

SpecProps == InitWait /\ [][NextProps]_vars

\* C21: when a write through the merged view has returned, both cameras'
\* maps hold the value under the key (every item of an update likewise);
\* a read through the view ends either by returning a value, which both
\* cameras then hold under the key, or by the divergence error, and then
\* the two cameras hold different values under the key.
C21_WritesBothReadsEqual ==
    vpc = "done" =>
        /\ vcall.kind \in {"set", "update"} =>
              /\ vres.out = "ok"
              /\ \A i \in 1..Len(vcall.args) : \A c \in CamIds :
                    props[c][vcall.args[i][1]] = vcall.args[i][2]
        /\ vcall.kind = "get" =>
              /\ vres.out \in {"value", "diverged"}
              /\ vres.out = "value" =>
                    \A c \in CamIds : props[c][vcall.key] = vres.v
              /\ vres.out = "diverged" =>
                    props[0][vcall.key] # props[1][vcall.key]

\* A read of the sensor mode through the view has returned TDI, which both
\* cameras hold, while the line bundle heights of the two cameras differ
\* (a read of that key raises).
C21_Witness ==
    /\ vpc = "done"
    /\ vcall.kind = "get"
    /\ vcall.key = "sensor_mode"
    /\ vres = [out |-> "value", v |-> TDI]
    /\ \A c \in CamIds : props[c]["sensor_mode"] = TDI
    /\ props[0]["sensor_mode_line_bundle_height"] # props[1]["sensor_mode_line_bundle_height"]

(***************************************************************************)
(* The laser specification.                                                *)
(***************************************************************************)
NextLaser ==
    \/ \E power \in PowerInputs : CallSetPower(power)
    \/ LaserSet
    \/ LaserPoll
    \/ LaserRamp
    \/ LaserReturn

SpecLaser == InitWait /\ [][NextLaser]_vars

\* C16 (as claimed): a set_power(target) that completed had target in
\* 0..500 and had read back a power within 3 mW of target, with the laser
\* coming from above or from below; set_power(0) completes so, and
\* set_power(501) fails.
C16_PowerConverged ==
    /\ lres = "ok" => /\ ltgt \in 0..500
                      /\ lrd # -1
                      /\ Abs(lrd - ltgt) <= 3
    /\ (lpc = "done" /\ ltgt = 0) => lres = "ok"
    /\ (lpc = "done" /\ ltgt = 501) => lres = "ValueError"

(***************************************************************************)
(* The tilt stage specification.                                           *)
(***************************************************************************)
NextTilt ==
    \/ TiltSend
    \/ TiltWait
    \/ TiltAck
    \/ TiltReturn

SpecTilt == InitWait /\ [][NextTilt]_vars

\* C19 (as claimed): no set-current, set-velocity or home command is sent
\* before a register clear; and when initialize has returned each motor
\* has been cleared and homed.
C19_ClearFirst ==
    /\ \A i, j \in 1..Len(tsent) :
          (tsent[i].kind = "CR" /\ tsent[j].kind \in {"CUR", "VL", "HM"}) => i < j
    /\ tpc = Len(TiltProgram) =>
          \A m \in {1, 2, 3} :
              /\ \E i \in 1..Len(tsent) : tsent[i] = TiltCommand("CR", m)
              /\ \E i \in 1..Len(tsent) : tsent[i] = TiltCommand("HM", m)

====
